---- MODULE Spec2Model ----
(***************************************************************************)
(* Study-Assistant API orchestration layer.                                *)
(*                                                                         *)
(*   fetchWithRetry                  src/unnamed/part_000, lines 31-66     *)
(*   safeParseJson                   src/unnamed/part_000, lines 73-81     *)
(*   analyzeIndividualPage           src/unnamed/part_000, lines 259-291   *)
(*   analyzePdfContentComprehensive  src/unnamed/part_000, lines 317-361   *)
(*   analyzePdfContentComprehensive  src/src/services/geminiService.ts,    *)
(*                                   lines 406-540                         *)
(*                                                                         *)
(* Every async function is a sequential process; its steps are the         *)
(* stretches of code between two awaits.  The transport (fetch) and the    *)
(* timers (setTimeout) are the environment: the answer of a fetch is       *)
(* chosen nondeterministically when the fetch settles.                     *)
(***************************************************************************)
EXTENDS Integers, Sequences, FiniteSets, TLC

VARIABLES
  \* ---- one invocation of fetchWithRetry
  fpc,        \* position: "idle", "loop", "awaitFetch", "wait5xx", "waitCatch", "returned", "thrown"
  retries,    \* parameter retries
  delay,      \* parameter delay, doubled by the backoff
  i,          \* loop counter of the for loop
  result,     \* the Response the invocation returned
  error,      \* the Error the invocation threw to its caller
  delay0,     \* history: the value of delay at the call
  attempts,   \* history: the answers of the fetch calls made so far
  waits,      \* history: the durations of the timers started so far
  caught,     \* history: the errors that reached the catch block
  \* ---- one run of analyzePdfContentComprehensive
  version,    \* "part000" (src/unnamed/part_000), "gemini" (geminiService.ts), "none"
  pages,      \* pageMatches: the segments, each its page number and trimmed length
  opc,        \* position: "idle", "loop", "awaitPage", "awaitFetch", "awaitJson",
              \*           "awaitDelay", "returned", "thrown"
  idx,        \* the segment the loop is at (1-based index into pages)
  resp,       \* the Response whose body is being read
  pageAnalyses,
  allKeyPoints,
  allCategories,
  log,        \* the console.error lines of the per-segment failure handlers
  aggregate,  \* the value the run returned
  timer,      \* the duration of the pending rate-limit timer, 0 when none
  called,     \* history: the segments (page numbers) a model call was issued for
  answered,   \* history: per segment, the answer that decided its model call
  batchStart, \* geminiService.ts: the counter i of the outer loop over the batches
  batchPos,   \* geminiService.ts: the position of the inner loop in the batch (1-based)
  visited,    \* history: the page numbers of the segments the loop has left, in order
  invocations,\* history: the number of model calls the loop body has issued
  pause,      \* history: the rate-limit delay waited since the last model call, 0 when none
  inflight,   \* history: the number of HTTP requests issued and not yet settled
  httpCalls,  \* history: the HTTP requests issued since the latest model call began
  \* ---- calls of safeParseJson
  ppc,        \* position: "idle", "start", "plainDone", "fencedDone"
  parseIn,    \* the content text c
  parseArg,   \* the argument of the latest call
  parseOut,   \* what the latest call returned (ok) or that it threw (~ok)
  parseErr,   \* the Error the latest call threw
  parseLog,   \* the console.error lines of the calls
  plainOut,   \* the outcome of the call on c itself
  \* ---- analyzeMultipleImages
  mpc,        \* position: "idle", "loop", "awaitImage", "awaitQuestions", "returned", "thrown"
  files,      \* the parameter files: the type of each file
  fidx,       \* the file the loop is at (1-based)
  analysisResults, \* the local array of the same name
  imageCalls, \* history: the files analyzeImage was called for, in order
  questionCalls, \* history: the arguments of the calls of generateQuestions, in order
  mOutcome,   \* what the call returned or threw
  \* ---- generateQuestions
  qpc,        \* position: "idle", "call", "awaitModel", "returned", "thrown"
  qversion,   \* "part000" or "gemini": which file's generateQuestions runs
  qargs,      \* the parameter analysisResults
  qdifficulty, \* the parameter difficulty
  qanswer,    \* history: what the awaited request settled with
  qresult,    \* the returned QuestionResult
  qerror,     \* the rethrown error
  \* ---- the StudyHistory component
  studyHistory,     \* state: the records fetched, less the deleted ones
  filteredHistory,  \* state: the records shown
  isLoading,        \* state: the loading screen is shown instead of the list
  filterType,       \* state: "all", "analysis" or "quiz"
  filterDifficulty, \* state: "all" or a difficulty
  filterLanguage,   \* state: "all" or a language
  searchTerm,       \* state: the text of the search box
  effectPending,    \* a render whose filter effect has not run yet
  fetching,         \* the calls of getStudyHistory in flight
  fetchCount,       \* history: the calls of fetchStudyHistory so far
  deleting,         \* the calls of deleteStudyHistory in flight, with what handleDelete saw
  deleteCount,      \* history: the calls of deleteStudyHistory that settled
  lastDelete,       \* history: the id and the outcome of the last of them, and whether
                    \* the list had changed since its handleDelete was called
  cleared,          \* history: clearFilters was the last change of a filter
  isRetakingQuiz,   \* state: the id of a record, or NoRetake for null
  retaking,         \* the calls of generateQuestions in flight: the ids of their records
  retakeCount,      \* history: the retakes started so far
  questionResult    \* the quiz handed to the application context

fetchVars == <<fpc, retries, delay, i, result, error, delay0, attempts, waits, caught>>

resultVars == <<pageAnalyses, allKeyPoints, allCategories>>

\* The position of the loop over the segments.
posVars == <<idx, batchStart, batchPos, visited>>

orchVars == <<version, pages, opc, idx, resp, pageAnalyses, allKeyPoints,
              allCategories, log, aggregate, timer, called, answered,
              batchStart, batchPos, visited, invocations, pause>>

parseVars == <<ppc, parseIn, parseArg, parseOut, parseErr, parseLog, plainOut>>

imgVars == <<mpc, files, fidx, analysisResults, imageCalls, questionCalls, mOutcome>>

\* The state of the functions above the transport layer other than the page analysis.
quizVars == <<qpc, qversion, qargs, qdifficulty, qanswer, qresult, qerror>>

listVars == <<studyHistory, filteredHistory, isLoading, effectPending, fetching, fetchCount, deleting, deleteCount, lastDelete>>

filterVars == <<filterType, filterDifficulty, filterLanguage, searchTerm, cleared>>

retakeVars == <<isRetakingQuiz, retaking, retakeCount, questionResult>>

histVars == <<listVars, filterVars, retakeVars>>

appVars == <<imgVars, quizVars, histVars>>

vars == <<fetchVars, orchVars, inflight, httpCalls, parseVars, appVars>>

----------------------------------------------------------------------------
(* Bounds of the model *)

MaxRetries == 4
MaxPages == 5
MaxLivePages == 3
MaxShapePages == 3
MaxChunkPages == 8
MaxTextLen == 4
MaxApiPages == 2

\* The most files analyzeMultipleImages is called with.
MaxFiles == 3

\* The most questions in an answer of the model to generateQuestions.
MaxQuestions == 2

\* The most records getStudyHistory returns.
MaxRecords == 2

\* The most calls of handleDelete in a run.
MaxDeletes == 2

\* The most calls of handleRetakeQuiz in a run.
MaxRetakes == 3

(* Program constants *)

DefaultRetries == 3
DefaultDelay == 1000
MinContentLength == 50
BatchSize == 5
PageDelay000 == 200
PageDelayGemini == 500

\* The values of the delay parameter the invocations are made with.
InitialDelays == {250, DefaultDelay}

----------------------------------------------------------------------------
(* The transport: what one fetch call settles with *)

\* A response body: whether it is JSON at all (response.json() resolves), and
\* the text of data.candidates?.[0]?.content?.parts?.[0]?.text as a sequence of
\* tokens (<<>>: the path is missing or the text is empty).
Body(isJson, text) == [json |-> isJson, content |-> text]

NoBody == Body(FALSE, <<>>)

\* fetch resolved with a Response of status s and body b
Response(s, b) == [rejected |-> FALSE, status |-> s, body |-> b]

\* fetch rejected (network failure): there is no Response
Rejected == [rejected |-> TRUE, status |-> 0, body |-> NoBody]

NoResponse == [rejected |-> FALSE, status |-> 0, body |-> NoBody]

\* The statuses the mock transport answers with.
Statuses == {200, 204, 304, 404, 429, 500, 503}

FetchAnswers == {Response(s, NoBody) : s \in Statuses} \cup {Rejected}

(* Errors *)

NoError == [kind |-> "none", status |-> 0, attempts |-> 0]

\* new Error(`HTTP error! status: ${response.status}`)
HttpError(s) == [kind |-> "http", status |-> s, attempts |-> 0]

\* the TypeError a rejected fetch carries
NetworkError == [kind |-> "network", status |-> 0, attempts |-> 0]

\* new Error(`Failed to fetch from ${url} after ${retries} attempts.`)
ExhaustedError(n) == [kind |-> "exhausted", status |-> 0, attempts |-> n]

\* The decimal digits of n, as a template literal prints a number.
RECURSIVE NumberText(_)
NumberText(n) ==
  LET digit == <<"0", "1", "2", "3", "4", "5", "6", "7", "8", "9">> IN
    IF n < 10 THEN <<digit[n + 1]>>
    ELSE NumberText(n \div 10) \o <<digit[(n % 10) + 1]>>

\* new Error('No content received from Gemini API')
NoContentMessage == <<"No content received from Gemini API">>

\* The message of an Error of fetchWithRetry.
MessageOf(e) ==
  CASE e.kind = "http" -> <<"HTTP error! status: ">> \o NumberText(e.status)
    [] e.kind = "exhausted" ->
         <<"Failed to fetch from ", "url", " after ">> \o NumberText(e.attempts) \o <<" attempts.">>
    [] e.kind = "network" -> <<"Failed to fetch">>
    [] OTHER -> <<>>

----------------------------------------------------------------------------
(* fetchWithRetry *)

\* response.status >= 500 && response.status < 600
IsServerError(r) == r.status >= 500 /\ r.status < 600

\* Every Response counts as ok.
ResponseOkAlways(r) == r.status >= 100

\* response.ok
ResponseOk(r) == r.status >= 200 /\ r.status <= 299

\* The loop condition of `for (let i = 0; i < retries; i++)`.
LoopCondOffByOne(j, n) == j <= n

LoopCond(j, n) == j < n

\* `delay *= 2` of the 5xx branch.
ServerErrorDelayKept(d) == d

ServerErrorDelay(d) == d * 2

\* `delay *= 2` of the catch block.
CatchDelayReset(d) == delay0

CatchDelay(d) == d * 2

\* `setTimeout(resolve, delay)`: the timer's callback resolves the promise.
TimerNeverResolves == FALSE

TimerResolves == TRUE

\* The 5xx branch: warn, then `await new Promise(resolve => setTimeout(resolve, delay))`.
ServerErrorBranch(r) ==
  /\ fpc' = "wait5xx"
  /\ waits' = Append(waits, delay)
  /\ UNCHANGED <<result, error, caught>>

\* The mutant of ReturnResponse: a success that is treated as one more failure.
ReturnAfterBackoff(r) == ServerErrorBranch(r)

\* `return response`
ReturnResponse(r) ==
  /\ fpc' = "returned"
  /\ result' = r
  /\ UNCHANGED <<error, waits, caught>>

\* The catch block does not wait after the last attempt.
CatchBlockNoLastWait(e) ==
  /\ caught' = Append(caught, e)
  /\ IF i + 1 < retries
       THEN /\ fpc' = "waitCatch"
            /\ waits' = Append(waits, delay)
            /\ UNCHANGED <<result, error>>
       ELSE /\ fpc' = "thrown"
            /\ error' = ExhaustedError(retries)
            /\ UNCHANGED <<result, waits>>

\* The catch block: warn, then `await new Promise(resolve => setTimeout(resolve, delay))`.
CatchBlock(e) ==
  /\ fpc' = "waitCatch"
  /\ caught' = Append(caught, e)
  /\ waits' = Append(waits, delay)
  /\ UNCHANGED <<result, error>>

\* The mutant of ClientErrorBranch: the error leaves fetchWithRetry.
ClientErrorPropagates(r) ==
  /\ fpc' = "thrown"
  /\ error' = HttpError(r.status)
  /\ UNCHANGED <<result, waits, caught>>

\* `throw new Error(`HTTP error! ...`)` stands inside the try block, so the
\* catch block of the same try statement receives it.
ClientErrorBranch(r) == CatchBlock(HttpError(r.status))

\* The call: the parameters are bound and the loop is entered.
FwrCall(n, d) ==
  /\ fpc' = "loop"
  /\ retries' = n
  /\ delay' = d
  /\ delay0' = d
  /\ i' = 0
  /\ result' = NoResponse
  /\ error' = NoError
  /\ attempts' = <<>>
  /\ waits' = <<>>
  /\ caught' = <<>>

\* The loop head: one more `await fetch(url, options)`, or the throw after the loop.
FwrAttempt ==
  /\ fpc = "loop"
  /\ IF LoopCond(i, retries)
       THEN /\ fpc' = "awaitFetch"
            /\ inflight' = inflight + 1
            /\ httpCalls' = httpCalls + 1
            /\ UNCHANGED error
       ELSE /\ fpc' = "thrown"
            /\ error' = ExhaustedError(retries)
            /\ UNCHANGED <<inflight, httpCalls>>
  /\ UNCHANGED <<retries, delay, i, result, delay0, attempts, waits, caught>>
  /\ UNCHANGED <<orchVars, parseVars, appVars>>

\* The fetch settles with r and the body of the try statement runs up to its next await.
FwrFetchSettle(r) ==
  /\ fpc = "awaitFetch"
  /\ attempts' = Append(attempts, r)
  /\ IF r.rejected THEN CatchBlock(NetworkError)
     ELSE IF ResponseOk(r) THEN ReturnResponse(r)
     ELSE IF IsServerError(r) THEN ServerErrorBranch(r)
     ELSE ClientErrorBranch(r)
  /\ inflight' = inflight - 1
  /\ UNCHANGED httpCalls
  /\ UNCHANGED <<retries, delay, i, delay0>>
  /\ UNCHANGED <<orchVars, parseVars, appVars>>

\* The timer fires: `delay *= 2`, then `continue` or the end of the catch block, then `i++`.
FwrTimer ==
  /\ fpc \in {"wait5xx", "waitCatch"}
  /\ TimerResolves
  /\ delay' = IF fpc = "wait5xx" THEN ServerErrorDelay(delay) ELSE CatchDelay(delay)
  /\ i' = i + 1
  /\ fpc' = "loop"
  /\ UNCHANGED <<retries, result, error, delay0, attempts, waits, caught>>
  /\ UNCHANGED <<orchVars, inflight, httpCalls, parseVars, appVars>>

FwrDone == fpc \in {"returned", "thrown"}

\* The frame of a finished invocation is dropped.
FwrRelease ==
  /\ fpc' = "idle"
  /\ retries' = 0
  /\ delay' = 0
  /\ delay0' = 0
  /\ i' = 0
  /\ result' = NoResponse
  /\ error' = NoError
  /\ attempts' = <<>>
  /\ waits' = <<>>
  /\ caught' = <<>>

FwrIdle ==
  /\ fpc = "idle"
  /\ retries = 0
  /\ delay = 0
  /\ delay0 = 0
  /\ i = 0
  /\ result = NoResponse
  /\ error = NoError
  /\ attempts = <<>>
  /\ waits = <<>>
  /\ caught = <<>>

----------------------------------------------------------------------------
(* safeParseJson, and the same three steps inlined in geminiService.ts *)

\* The tokens a model text is made of: the fence of three backticks, the word json, a line
\* break, a blank, and the payloads: "A" is the text of a JSON object with the
\* fields keyPoints and tnpscCategories, "B" that of a JSON object with neither,
\* "null" the JSON null, "x" text that is no JSON.
Fence == "FENCE"
NL == "NL"
Blank == "SP"
Whitespace == {NL, Blank}
JsonTokens == {"A", "B", "C", "null"}

\* The values JSON.parse gives for the payloads.
JsonNull ==
  [isObject |-> FALSE, hasKeyPoints |-> FALSE, keyPoints |-> <<>>, keyPointsIterable |-> TRUE,
   hasCategories |-> FALSE, tnpscCategories |-> <<>>]

JsonValueOf(tok) ==
  CASE tok = "A" -> [isObject |-> TRUE, hasKeyPoints |-> TRUE, keyPoints |-> <<"k1", "k2">>,
                     keyPointsIterable |-> TRUE,
                     hasCategories |-> TRUE, tnpscCategories |-> <<"c1", "c2">>]
    [] tok = "B" -> [isObject |-> TRUE, hasKeyPoints |-> FALSE, keyPoints |-> <<>>,
                     keyPointsIterable |-> TRUE,
                     hasCategories |-> FALSE, tnpscCategories |-> <<>>]
    [] tok = "C" -> [isObject |-> TRUE, hasKeyPoints |-> TRUE, keyPoints |-> <<"o1">>,
                     keyPointsIterable |-> FALSE,
                     hasCategories |-> TRUE, tnpscCategories |-> <<"c3">>]
    [] OTHER -> JsonNull

\* text.replace(/FENCEjson\n?|\n?FENCE/g, '') with FENCE the three backticks: at each position the first
\* alternative is tried before the second; what matches is dropped.
RECURSIVE StripFences(_)
StripFences(t) ==
  IF t = <<>> THEN <<>>
  ELSE IF Len(t) >= 2 /\ t[1] = Fence /\ t[2] = "json"
    THEN StripFences(SubSeq(t, (IF Len(t) >= 3 /\ t[3] = NL THEN 4 ELSE 3), Len(t)))
  ELSE IF Len(t) >= 2 /\ t[1] = NL /\ t[2] = Fence
    THEN StripFences(SubSeq(t, 3, Len(t)))
  ELSE IF t[1] = Fence
    THEN StripFences(Tail(t))
  ELSE <<t[1]>> \o StripFences(Tail(t))

\* .trim()
RECURSIVE TrimStart(_)
TrimStart(t) ==
  IF t # <<>> /\ t[1] \in Whitespace THEN TrimStart(Tail(t)) ELSE t

RECURSIVE TrimEnd(_)
TrimEnd(t) ==
  IF t # <<>> /\ t[Len(t)] \in Whitespace THEN TrimEnd(SubSeq(t, 1, Len(t) - 1)) ELSE t

Trim(t) == TrimEnd(TrimStart(t))

\* JSON.parse: white space around the one value is allowed, anything else throws.
JsonParse(t) ==
  LET u == Trim(t) IN
    IF Len(u) = 1 /\ u[1] \in JsonTokens
      THEN [ok |-> TRUE, value |-> JsonValueOf(u[1])]
      ELSE [ok |-> FALSE, value |-> JsonNull]

\* safeParseJson(text): ok = FALSE stands for the throw of
\* "Invalid JSON response from API. The response could not be parsed."
safeParseJson(text) == JsonParse(Trim(StripFences(text)))

\* The Error of the catch block, and no Error.
InvalidJsonMessage == <<"Invalid JSON response from API. The response could not be parsed.">>
InvalidJsonError == [thrown |-> TRUE, message |-> InvalidJsonMessage]
NoParseError == [thrown |-> FALSE, message |-> <<>>]

\* `throw error`: the SyntaxError of JSON.parse, which quotes the text.
ThrownErrorOfParser(cleanedText) ==
  [thrown |-> TRUE, message |-> <<"Unexpected token in JSON: ">> \o cleanedText]

\* `throw new Error("Invalid JSON response from API. ...")`
ThrownError(cleanedText) == InvalidJsonError

\* { rawContent: cleanedText }
LoggedTextCleaned(text, cleanedText) == cleanedText

\* { rawContent: text }
LoggedText(text, cleanedText) == text

\* One call safeParseJson(t): the return value, or the console.error line and the throw.
SafeParseJsonCall(t) ==
  LET cleanedText == Trim(StripFences(t))
      parsed == JsonParse(cleanedText)
  IN /\ parseArg' = t
     /\ parseOut' = parsed
     /\ IF parsed.ok
          THEN /\ parseErr' = NoParseError
               /\ UNCHANGED parseLog
          ELSE /\ parseErr' = ThrownError(cleanedText)
               /\ parseLog' = Append(parseLog,
                                     [msg |-> "Failed to parse JSON from Gemini API.",
                                      rawContent |-> LoggedText(t, cleanedText)])

\* The text c between an opening fence with the word json and a closing fence,
\* each with or without its line break.
Fenced(c, nlOpen, nlClose) ==
  <<Fence, "json">> \o (IF nlOpen THEN <<NL>> ELSE <<>>) \o c
                    \o (IF nlClose THEN <<NL>> ELSE <<>>) \o <<Fence>>

\* safeParseJson is called on the content itself.
ParsePlain ==
  /\ ppc = "start"
  /\ ppc' = "plainDone"
  /\ SafeParseJsonCall(parseIn)
  /\ plainOut' = parseOut'
  /\ UNCHANGED parseIn
  /\ UNCHANGED <<fetchVars, orchVars, inflight, httpCalls, appVars>>

\* safeParseJson is called on a fenced form of the content.
ParseFenced(nlOpen, nlClose) ==
  /\ ppc = "plainDone"
  /\ ppc' = "fencedDone"
  /\ SafeParseJsonCall(Fenced(parseIn, nlOpen, nlClose))
  /\ UNCHANGED <<parseIn, plainOut>>
  /\ UNCHANGED <<fetchVars, orchVars, inflight, httpCalls, appVars>>

\* `analysis.keyPoints || []`
KeyPointsOrEmpty(v) == IF v.hasKeyPoints THEN v.keyPoints ELSE <<>>

\* `analysis.tnpscCategories || []`
CategoriesOrEmpty(v) == IF v.hasCategories THEN v.tnpscCategories ELSE <<>>

\* [...new Set(allCategories)]: the first occurrence of each element, in order.
RECURSIVE Dedupe(_)
Dedupe(q) ==
  IF q = <<>> THEN <<>>
  ELSE LET front == Dedupe(SubSeq(q, 1, Len(q) - 1))
           last == q[Len(q)]
       IN IF \E k \in 1..Len(front) : front[k] = last THEN front ELSE Append(front, last)

----------------------------------------------------------------------------
(* analyzePdfContentComprehensive: what both versions share *)

\* The lengths of the trimmed page contents the runs are made with: the two
\* sides of the threshold.
PageLengths == {MinContentLength - 1, MinContentLength}

\* pageMatches: n segments, the k-th of page number k.
PageSeqs ==
  UNION {[1..n -> {[pageNumber |-> 0, length |-> l] : l \in PageLengths}] : n \in 0..MaxPages}

WithPageNumbers(q) == [k \in 1..Len(q) |-> [pageNumber |-> k, length |-> q[k].length]]

\* The bodies the mock model answers a 200 with.
TextFencedA == <<Fence, "json", NL, "A", NL, Fence>>
TextPlainB == <<"B">>
TextJunk == <<"x">>
BatchBodies == {Body(TRUE, TextFencedA), Body(TRUE, TextPlainB), Body(TRUE, TextJunk), Body(TRUE, <<>>)}

BatchAnswers == {Response(200, b) : b \in BatchBodies} \cup {Response(500, NoBody), Rejected}

\* Contents that are JSON but not what the prompt asks for: the value null, and
\* an object whose keyPoints is not an array (a number, an object).
TextNull == <<"null">>
TextOddC == <<"C">>
ShapeAnswers == BatchAnswers \cup {Response(200, Body(TRUE, TextNull)), Response(200, Body(TRUE, TextOddC))}

NoAggregate ==
  [pageAnalyses |-> <<>>, pageCount |-> 0, keyPointCount |-> 0,
   totalKeyPoints |-> <<>>, tnpscCategories |-> <<>>]

\* The summary counts the model calls and the entries.
AggregateCountsCalls ==
  [pageAnalyses |-> pageAnalyses,
   pageCount |-> invocations,
   keyPointCount |-> Len(pageAnalyses),
   totalKeyPoints |-> allKeyPoints,
   tnpscCategories |-> Dedupe(allCategories)]

\* The object the run returns; pageCount and keyPointCount are the two numbers
\* of overallSummary.
Aggregate ==
  [pageAnalyses |-> pageAnalyses,
   pageCount |-> Len(pageAnalyses),
   keyPointCount |-> Len(allKeyPoints),
   totalKeyPoints |-> allKeyPoints,
   tnpscCategories |-> Dedupe(allCategories)]

LogLine(pageNumber, msg) == [page |-> pageNumber, msg |-> msg]

Min(a, b) == IF a < b THEN a ELSE b

\* geminiService.ts: `pageMatches.slice(i, i + batchSize)`
Batch == SubSeq(pages, batchStart + 1, Min(batchStart + BatchSize, Len(pages)))

\* The segment the loop body runs for: `page` of the for-of loop of part_000,
\* `match` of the inner loop of geminiService.ts.
CurrentSegment == IF version = "gemini" THEN Batch[batchPos] ELSE pages[idx]

PageNumber == CurrentSegment.pageNumber

\* `if (pageContent.length < 49)`
IsSparseOffByOne(seg) == seg.length < MinContentLength - 1

\* `if (pageContent.length < 50)`
IsSparse(seg) == seg.length < MinContentLength

\* The loop condition: `i < pageMatches.length` of the outer loop of
\* geminiService.ts (the inner loop over a batch is left as soon as it is
\* exhausted), the for-of iterator of part_000.
HasSegment == IF version = "gemini" THEN batchStart < Len(pages) ELSE idx <= Len(pages)

\* A call may be issued while the previous one is awaited.
AtSegmentNoAwait == opc \in {"loop", "awaitFetch", "awaitPage"} /\ HasSegment

\* The loop is at a segment; `continue` and the end of the body lead to the next.
AtSegment == opc = "loop" /\ HasSegment

\* `i += batchSize` steps back onto the last segment of the batch.
NextBatchStartOverlaps(b) == b + BatchSize - 1

\* `i += batchSize`
NextBatchStart(b) == b + BatchSize

\* The loop does not advance.
NextSegmentRepeats ==
  UNCHANGED <<idx, visited, batchStart, batchPos>>

\* The loop moves to the next segment: the next of the batch, or the first of
\* the next batch; idx counts the segments left behind, plus one.
NextSegment ==
  /\ idx' = idx + 1
  /\ visited' = Append(visited, PageNumber)
  /\ IF version = "gemini"
       THEN IF batchPos < Len(Batch)
              THEN /\ batchPos' = batchPos + 1
                   /\ UNCHANGED batchStart
              ELSE /\ batchPos' = 1
                   /\ batchStart' = NextBatchStart(batchStart)
       ELSE UNCHANGED <<batchStart, batchPos>>

\* `if (pageContent.length < 50) continue;`
OSkip ==
  /\ AtSegment
  /\ IsSparse(CurrentSegment)
  /\ NextSegment
  /\ UNCHANGED <<version, pages, opc, resp, resultVars, log, aggregate, timer, called, answered>>
  /\ UNCHANGED <<invocations, pause>>
  /\ UNCHANGED <<fetchVars, inflight, httpCalls, parseVars, appVars>>

\* The loop is over: the aggregate is built and returned.
OFinish ==
  /\ opc = "loop"
  /\ ~HasSegment
  /\ opc' = "returned"
  /\ aggregate' = Aggregate
  /\ UNCHANGED <<version, pages, posVars, resp, resultVars, log, timer, called, answered>>
  /\ UNCHANGED <<invocations, pause>>
  /\ UNCHANGED <<fetchVars, inflight, httpCalls, parseVars, appVars>>

\* The rate-limit timer at the end of the loop body fires.
ODelayFire ==
  /\ opc = "awaitDelay"
  /\ opc' = "loop"
  /\ NextSegment
  /\ timer' = 0
  /\ pause' = timer
  /\ UNCHANGED <<version, pages, resp, resultVars, log, aggregate, called, answered>>
  /\ UNCHANGED invocations
  /\ UNCHANGED <<fetchVars, inflight, httpCalls, parseVars, appVars>>

----------------------------------------------------------------------------
(* analyzePdfContentComprehensive of src/unnamed/part_000, with analyzeIndividualPage *)

\* The catch block of the loop body, reached through the catch block of
\* analyzeIndividualPage, which logs and rethrows; then the 200 ms timer.
PageFailedRethrows000 ==
  /\ log' = log \o <<LogLine(PageNumber, "Error analyzing page"),
                     LogLine(PageNumber, "Error in comprehensive PDF analysis")>>
  /\ opc' = "thrown"
  /\ timer' = 0
  /\ UNCHANGED <<resultVars, aggregate>>

PageFailed000 ==
  /\ log' = log \o <<LogLine(PageNumber, "Error analyzing page"),
                     LogLine(PageNumber, "Error processing comprehensive analysis for page")>>
  /\ opc' = "awaitDelay"
  /\ timer' = PageDelay000
  /\ UNCHANGED <<resultVars, aggregate>>

\* The object analyzeIndividualPage returns: it has no field tnpscCategories.
IndividualPageResult(pageNumber, v) ==
  [pageNumber |-> pageNumber, keyPoints |-> KeyPointsOrEmpty(v),
   keyPointsIterable |-> v.keyPointsIterable,
   hasCategories |-> FALSE, tnpscCategories |-> <<>>]

\* pageAnalyses.push(entry)
PushAnalysis(all, entry) == Append(all, entry)

\* allKeyPoints.push(...(analysis.keyPoints || []))
PushKeyPointsReplaces(all, kp) == kp

PushKeyPoints(all, kp) == all \o kp

\* The three pushes of the loop body, then the 200 ms timer. The spread of a
\* keyPoints that is not iterable throws after the entry was pushed: the catch
\* block of the loop body logs it.
PageSucceeded000(analysis) ==
  /\ pageAnalyses' = PushAnalysis(pageAnalyses,
                                  [pageNumber |-> analysis.pageNumber, keyPoints |-> analysis.keyPoints])
  /\ IF analysis.keyPointsIterable
       THEN /\ allKeyPoints' = PushKeyPoints(allKeyPoints, analysis.keyPoints)
            /\ allCategories' = IF analysis.hasCategories
                                  THEN allCategories \o analysis.tnpscCategories
                                  ELSE allCategories
            /\ UNCHANGED log
       ELSE /\ log' = Append(log, LogLine(PageNumber, "Error processing comprehensive analysis for page"))
            /\ UNCHANGED <<allKeyPoints, allCategories>>
  /\ opc' = "awaitDelay"
  /\ timer' = PageDelay000
  /\ UNCHANGED aggregate

\* analyzeIndividualPage is called: fetchWithRetry(url, options) with its defaults.
Call000 ==
  /\ version = "part000"
  /\ AtSegment
  /\ ~IsSparse(CurrentSegment)
  /\ opc' = "awaitPage"
  /\ called' = called \cup {PageNumber}
  /\ invocations' = invocations + 1
  /\ pause' = 0
  /\ FwrCall(DefaultRetries, DefaultDelay)
  /\ UNCHANGED <<version, pages, posVars, resp, resultVars, log, aggregate, timer, answered>>
  /\ httpCalls' = 0
  /\ UNCHANGED <<inflight, parseVars, appVars>>

\* fetchWithRetry returned: `await response.json()`.
PageFetchReturned000 ==
  /\ opc = "awaitPage"
  /\ fpc = "returned"
  /\ opc' = "awaitJson"
  /\ resp' = result
  /\ answered' = [answered EXCEPT ![PageNumber] = result]
  /\ FwrRelease
  /\ UNCHANGED <<version, pages, posVars, resultVars, log, aggregate, timer, called>>
  /\ UNCHANGED <<invocations, pause, inflight, httpCalls, parseVars, appVars>>

\* fetchWithRetry threw: the error passes through analyzeIndividualPage.
PageFetchThrown000 ==
  /\ opc = "awaitPage"
  /\ fpc = "thrown"
  /\ answered' = [answered EXCEPT ![PageNumber] = attempts[Len(attempts)]]
  /\ PageFailed000
  /\ FwrRelease
  /\ UNCHANGED <<version, pages, posVars, resp, called>>
  /\ UNCHANGED <<invocations, pause, inflight, httpCalls, parseVars, appVars>>

\* The body is read: content check, safeParseJson, the returned object, the pushes.
JsonSettle000 ==
  /\ version = "part000"
  /\ opc = "awaitJson"
  /\ LET parsed == safeParseJson(resp.body.content) IN
       IF ~resp.body.json \/ resp.body.content = <<>> \/ ~parsed.ok \/ ~parsed.value.isObject
         THEN PageFailed000
         ELSE PageSucceeded000(IndividualPageResult(PageNumber, parsed.value))
  /\ resp' = NoResponse
  /\ UNCHANGED <<version, pages, posVars, called, answered>>
  /\ UNCHANGED <<invocations, pause>>
  /\ UNCHANGED <<fetchVars, inflight, httpCalls, parseVars, appVars>>

----------------------------------------------------------------------------
(* analyzePdfContentComprehensive of src/src/services/geminiService.ts *)

\* The catch block rethrows instead of logging.
GCatchRethrows ==
  /\ log' = Append(log, LogLine(PageNumber, "Error analyzing page"))
  /\ opc' = "thrown"
  /\ timer' = 0
  /\ UNCHANGED <<posVars, pause, resultVars, aggregate>>

\* The catch block of the loop body, then the 500 ms timer.
GCatch ==
  /\ log' = Append(log, LogLine(PageNumber, "Error analyzing page"))
  /\ opc' = "awaitDelay"
  /\ timer' = PageDelayGemini
  /\ UNCHANGED <<posVars, pause, resultVars, aggregate>>

\* `console.error(...); continue;` inside the try block: the next segment, no timer.
GContinue(msg) ==
  /\ log' = Append(log, LogLine(PageNumber, msg))
  /\ opc' = "loop"
  /\ NextSegment
  /\ UNCHANGED <<timer, pause, resultVars, aggregate>>

\* The push of the page, of its key points and of its categories, then the
\* 500 ms timer. The spread of a keyPoints that is not iterable throws after
\* the entry was pushed: the catch block of the loop body logs it.
GPageSucceeded(v) ==
  /\ pageAnalyses' = PushAnalysis(pageAnalyses,
                                  [pageNumber |-> PageNumber, keyPoints |-> KeyPointsOrEmpty(v)])
  /\ IF v.keyPointsIterable
       THEN /\ allKeyPoints' = PushKeyPoints(allKeyPoints, KeyPointsOrEmpty(v))
            /\ allCategories' = allCategories \o CategoriesOrEmpty(v)
            /\ UNCHANGED log
       ELSE /\ log' = Append(log, LogLine(PageNumber, "Error analyzing page"))
            /\ UNCHANGED <<allKeyPoints, allCategories>>
  /\ opc' = "awaitDelay"
  /\ timer' = PageDelayGemini
  /\ UNCHANGED <<posVars, pause, aggregate>>

\* `await fetch(...)` of the loop body.
CallGemini ==
  /\ version = "gemini"
  /\ AtSegment
  /\ ~IsSparse(CurrentSegment)
  /\ opc' = "awaitFetch"
  /\ called' = called \cup {PageNumber}
  /\ invocations' = invocations + 1
  /\ pause' = 0
  /\ inflight' = inflight + 1
  /\ httpCalls' = 1
  /\ UNCHANGED <<version, pages, posVars, resp, resultVars, log, aggregate, timer, answered>>
  /\ UNCHANGED <<fetchVars, parseVars, appVars>>

\* The fetch settles with r.
GFetchSettle(r) ==
  /\ opc = "awaitFetch"
  /\ answered' = [answered EXCEPT ![PageNumber] = r]
  /\ inflight' = inflight - 1
  /\ UNCHANGED httpCalls
  /\ IF r.rejected THEN GCatch /\ resp' = NoResponse
     ELSE IF ~ResponseOk(r) THEN GContinue("Failed to analyze page") /\ resp' = NoResponse
     ELSE /\ opc' = "awaitJson"
          /\ resp' = r
          /\ UNCHANGED <<posVars, pause, resultVars, log, aggregate, timer>>
  /\ UNCHANGED <<version, pages, called, invocations>>
  /\ UNCHANGED <<fetchVars, parseVars, appVars>>

\* The body is read: content check, replace, trim, JSON.parse, the pushes.
GJsonSettle ==
  /\ version = "gemini"
  /\ opc = "awaitJson"
  /\ LET parsed == JsonParse(Trim(StripFences(resp.body.content))) IN
       IF ~resp.body.json THEN GCatch
       ELSE IF resp.body.content = <<>> THEN GContinue("No content received for page")
       ELSE IF ~parsed.ok \/ ~parsed.value.isObject THEN GCatch
       ELSE GPageSucceeded(parsed.value)
  /\ resp' = NoResponse
  /\ UNCHANGED <<version, pages, called, answered, invocations>>
  /\ UNCHANGED <<fetchVars, inflight, httpCalls, parseVars, appVars>>

----------------------------------------------------------------------------
(* The state of the orchestrator *)

\* No call of safeParseJson is being followed.
\* ---------------------------------------------------------------------------
\* analyzeMultipleImages (part_000 293-313, geminiService.ts 772-797)
\* ---------------------------------------------------------------------------

\* A file type is the sequence of the pieces of its MIME string.
FileTypes ==
  { <<"image/", "png">>, <<"image/", "jpeg">>, <<"application/", "pdf">>,
    <<"text/", "image/">>, <<>> }

\* String.prototype.startsWith
StartsWith(t, prefix) ==
  /\ Len(t) >= Len(prefix)
  /\ SubSeq(t, 1, Len(prefix)) = prefix

\* file.type.startsWith('image/')
IsImage(type) == StartsWith(type, <<"image/">>)

\* What analyzeImage returns for file k, and what it throws.
ImageResult(k) == [file |-> k]

ImageError(k) == [kind |-> "analyzeImage", file |-> k]

\* What generateQuestions returns for its argument, and what it throws.
QuizResult(results) == [kind |-> "quiz", from |-> results]

QuizError == [kind |-> "generateQuestions"]

NoValidImagesError == [kind |-> "error", message |-> "No valid images found for analysis"]

NoOutcome == [kind |-> "none"]

ImgIdle ==
  /\ mpc = "idle"
  /\ files = <<>>
  /\ fidx = 0
  /\ analysisResults = <<>>
  /\ imageCalls = <<>>
  /\ questionCalls = <<>>
  /\ mOutcome = NoOutcome

\* A file that is not an image: the loop moves on without a call.
MSkipFile ==
  /\ mpc = "loop"
  /\ fidx <= Len(files)
  /\ ~IsImage(files[fidx])
  /\ fidx' = fidx + 1
  /\ UNCHANGED <<mpc, files, analysisResults, imageCalls, questionCalls, mOutcome>>
  /\ UNCHANGED <<fetchVars, orchVars, inflight, httpCalls, parseVars, quizVars, histVars>>

\* An image: analyzeImage is called and awaited.
MCallImage ==
  /\ mpc = "loop"
  /\ fidx <= Len(files)
  /\ IsImage(files[fidx])
  /\ mpc' = "awaitImage"
  /\ imageCalls' = Append(imageCalls, fidx)
  /\ UNCHANGED <<files, fidx, analysisResults, questionCalls, mOutcome>>
  /\ UNCHANGED <<fetchVars, orchVars, inflight, httpCalls, parseVars, quizVars, histVars>>

\* A mutant of ImageFailed: the failing image is skipped.
ImageFailedContinues ==
  /\ mpc' = "loop"
  /\ fidx' = fidx + 1
  /\ UNCHANGED mOutcome

\* analyzeImage threw: the catch block logs and rethrows the same error.
ImageFailed ==
  /\ mpc' = "thrown"
  /\ mOutcome' = ImageError(fidx)
  /\ UNCHANGED fidx

\* The awaited analyzeImage settles.
MImageSettle(ok) ==
  /\ mpc = "awaitImage"
  /\ IF ok
       THEN /\ analysisResults' = Append(analysisResults, ImageResult(fidx))
            /\ fidx' = fidx + 1
            /\ mpc' = "loop"
            /\ UNCHANGED mOutcome
       ELSE /\ ImageFailed
            /\ UNCHANGED analysisResults
  /\ UNCHANGED <<files, imageCalls, questionCalls>>
  /\ UNCHANGED <<fetchVars, orchVars, inflight, httpCalls, parseVars, quizVars, histVars>>

\* After the loop: no result is an error, otherwise generateQuestions is called.
MAfterLoop ==
  /\ mpc = "loop"
  /\ fidx > Len(files)
  /\ IF Len(analysisResults) = 0
       THEN /\ mpc' = "thrown"
            /\ mOutcome' = NoValidImagesError
            /\ UNCHANGED questionCalls
       ELSE /\ mpc' = "awaitQuestions"
            /\ questionCalls' = Append(questionCalls, analysisResults)
            /\ UNCHANGED mOutcome
  /\ UNCHANGED <<files, fidx, analysisResults, imageCalls>>
  /\ UNCHANGED <<fetchVars, orchVars, inflight, httpCalls, parseVars, quizVars, histVars>>

\* The awaited generateQuestions settles: its result is returned, its error rethrown.
MQuestionsSettle(ok) ==
  /\ mpc = "awaitQuestions"
  /\ IF ok
       THEN /\ mpc' = "returned"
            /\ mOutcome' = QuizResult(questionCalls[Len(questionCalls)])
       ELSE /\ mpc' = "thrown"
            /\ mOutcome' = QuizError
  /\ UNCHANGED <<files, fidx, analysisResults, imageCalls, questionCalls>>
  /\ UNCHANGED <<fetchVars, orchVars, inflight, httpCalls, parseVars, quizVars, histVars>>

\* ---------------------------------------------------------------------------
\* generateQuestions (part_000 138-185, geminiService.ts 118-268)
\* ---------------------------------------------------------------------------

\* JavaScript values, as far as the formatting of the questions tells them apart.
Undefined == [t |-> "undefined"]

Null == [t |-> "null"]

Str(x) == [t |-> "string", s |-> x]

Arr(xs) == [t |-> "array", items |-> xs]

\* Array.isArray
IsArray(v) == v.t = "array"

\* The values JavaScript's || takes for false.
Falsy(v) == v.t \in {"undefined", "null"} \/ v = Str("")

\* a || b
OrElse(a, b) == IF Falsy(a) THEN b ELSE a

\* A question as the model wrote it: an object with some of the four fields.
RawQuestions ==
  [ t : {"object"},
    type : {Undefined, Str("assertion")},
    options : {Undefined, Str("o1"), Arr(<<Str("o1"), Str("o2")>>)},
    answer : {Undefined, Str(""), Str("B")},
    matchingPairs : {Undefined} ]

\* What the answer's text parses to: an array of questions or of null, or something else.
QuizItems == RawQuestions \cup {Null}

QuizArrays == { Arr(xs) : xs \in UNION { [1..n -> QuizItems] : n \in 0..MaxQuestions } }

QuizNonArrays == { Null, Str("text"), [t |-> "object", questions |-> Arr(<<>>)] }

QuizValues == QuizArrays \cup QuizNonArrays

\* What the awaited request can settle with.
QuizAnswers ==
  {[kind |-> "rejected"]}
    \cup [kind : {"response"}, ok : {FALSE}, content : {"none"}]
    \cup [kind : {"response"}, ok : {TRUE}, content : {"none", "unparsable"}]
    \cup {[kind |-> "response", ok |-> TRUE, content |-> "json", value |-> v] : v \in QuizValues}

NoQuizAnswer == [kind |-> "none"]

NoQuizResult == [kind |-> "none"]

NoQuizError == [kind |-> "none"]

TransportError == [kind |-> "transport"]

TypeError == [kind |-> "TypeError"]

SyntaxError == [kind |-> "SyntaxError"]

NoContentError == [kind |-> "error", message |-> NoContentMessage]

\* The options put in place of a missing options array.
PlaceholderOptions ==
  IF qversion = "part000"
    THEN Arr(<<Str("A"), Str("B"), Str("C"), Str("D")>>)
    ELSE Arr(<<Str("Option A"), Str("Option B"), Str("Option C"), Str("Option D")>>)

\* The callback of questions.map: the question with its defaults.
FormatQuestion(q) ==
  [ t |-> "object",
    type |-> OrElse(q.type, Str("mcq")),
    options |-> IF IsArray(q.options) THEN q.options ELSE PlaceholderOptions,
    answer |-> OrElse(q.answer, Str("A")),
    matchingPairs |-> OrElse(q.matchingPairs, Null) ]

\* The callback throws on an element whose properties cannot be read.
FormatThrows(v) == \E k \in 1..Len(v.items) : v.items[k].t \in {"null", "undefined"}

\* Whether the parsed answer goes through questions.map.
MapsQuestions(v) == IF qversion = "part000" THEN IsArray(v) ELSE TRUE

\* combinedContent.map(c => c.summary).join(' ')
JoinSummaries(rs) == [k \in 1..Len(rs) |-> rs[k].summary]

\* analysisResults.flatMap(r => r.keyPoints)
RECURSIVE FlatMapKeyPoints(_)
FlatMapKeyPoints(rs) ==
  IF rs = <<>> THEN <<>> ELSE rs[1].keyPoints \o FlatMapKeyPoints(Tail(rs))

QuestionResult(formattedQuestions) ==
  [ kind |-> "quiz",
    questions |-> formattedQuestions,
    summary |-> JoinSummaries(qargs),
    keyPoints |-> FlatMapKeyPoints(qargs),
    difficulty |-> qdifficulty,
    totalQuestions |-> Len(formattedQuestions) ]

QuizThrow(e) ==
  /\ qpc' = "thrown"
  /\ qerror' = e
  /\ UNCHANGED qresult

QuizReturn(formattedQuestions) ==
  /\ qpc' = "returned"
  /\ qresult' = QuestionResult(formattedQuestions)
  /\ UNCHANGED qerror

QuizIdle ==
  /\ qpc = "idle"
  /\ qversion = "none"
  /\ qargs = <<>>
  /\ qdifficulty = "medium"
  /\ qanswer = NoQuizAnswer
  /\ qresult = NoQuizResult
  /\ qerror = NoQuizError

\* The prompt is built and the request is sent and awaited.
QCall ==
  /\ qpc = "call"
  /\ qpc' = "awaitModel"
  /\ UNCHANGED <<qversion, qargs, qdifficulty, qanswer, qresult, qerror>>
  /\ UNCHANGED <<fetchVars, orchVars, inflight, httpCalls, parseVars, imgVars, histVars>>

\* The request settles; the rest of the function runs without another await
\* that can fail on its own (response.json() of a response with a body).
QSettle(a) ==
  /\ qpc = "awaitModel"
  /\ qversion = "part000" /\ a.kind = "response" => a.ok
  /\ qanswer' = a
  /\ IF a.kind = "rejected" THEN QuizThrow(TransportError)
     ELSE IF ~a.ok THEN QuizThrow(HttpError(500))
     ELSE IF a.content = "none" THEN QuizThrow(NoContentError)
     ELSE IF a.content = "unparsable"
       THEN QuizThrow(IF qversion = "part000" THEN InvalidJsonError ELSE SyntaxError)
     ELSE IF ~MapsQuestions(a.value) THEN QuizReturn(<<>>)
     ELSE IF ~IsArray(a.value) THEN QuizThrow(TypeError)
     ELSE IF FormatThrows(a.value) THEN QuizThrow(TypeError)
     ELSE QuizReturn([k \in 1..Len(a.value.items) |-> FormatQuestion(a.value.items[k])])
  /\ UNCHANGED <<qversion, qargs, qdifficulty>>
  /\ UNCHANGED <<fetchVars, orchVars, inflight, httpCalls, parseVars, imgVars, histVars>>

\* ---------------------------------------------------------------------------
\* The StudyHistory component (StudyHistory.tsx)
\* ---------------------------------------------------------------------------

\* Texts are sequences of characters here.
LowerOf(c) ==
  CASE c = "A" -> "a"
    [] c = "Q" -> "q"
    [] OTHER -> c

\* String.prototype.toLowerCase
ToLowerCase(t) == [k \in 1..Len(t) |-> LowerOf(t[k])]

\* String.prototype.includes
Includes(t, s) == \E k \in 0..(Len(t) - Len(s)) : SubSeq(t, k + 1, k + Len(s)) = s

NoFileName == [present |-> FALSE, text |-> <<>>]

FileName(t) == [present |-> TRUE, text |-> t]

TypeText(type) ==
  IF type = "quiz" THEN <<"q", "u", "i", "z">>
  ELSE <<"a", "n", "a", "l", "y", "s", "i", "s">>

\* The records of the history store, but for their id.
RecordShapes ==
  { [type |-> "analysis", difficulty |-> "easy", language |-> "english",
     fileName |-> FileName(<<"Q", Blank, "u">>), analysisData |-> TRUE],
    [type |-> "quiz", difficulty |-> "hard", language |-> "tamil",
     fileName |-> NoFileName, analysisData |-> FALSE],
    [type |-> "analysis", difficulty |-> "hard", language |-> "english",
     fileName |-> FileName(<<"a", "Q", "U">>), analysisData |-> TRUE] }

WithId(shape, id) ==
  [id |-> id, type |-> shape.type, difficulty |-> shape.difficulty,
   language |-> shape.language, fileName |-> shape.fileName,
   analysisData |-> shape.analysisData]

\* What getStudyHistory resolves with: records of distinct ids.
Histories ==
  { [k \in 1..Len(q) |-> WithId(q[k], k)] :
      q \in UNION { [1..n -> RecordShapes] : n \in 0..MaxRecords } }

\* What the search box can hold.
SearchTerms == { <<>>, <<Blank>>, <<"Q", "u">> }

\* getUniqueValues(key): the values the two selects offer.
UniqueDifficulties == { studyHistory[k].difficulty : k \in 1..Len(studyHistory) }

UniqueLanguages == { studyHistory[k].language : k \in 1..Len(studyHistory) }

\* record.fileName?.toLowerCase().includes(...) || record.type.toLowerCase().includes(...)
SearchMatches(record, term) ==
  \/ record.fileName.present /\ Includes(ToLowerCase(record.fileName.text), ToLowerCase(term))
  \/ Includes(ToLowerCase(TypeText(record.type)), ToLowerCase(term))

\* applyFilters: what it passes to setFilteredHistory.
ApplyFilters ==
  LET byType == IF filterType # "all"
                  THEN SelectSeq(studyHistory, LAMBDA r : r.type = filterType)
                  ELSE studyHistory
      byDifficulty == IF filterDifficulty # "all"
                        THEN SelectSeq(byType, LAMBDA r : r.difficulty = filterDifficulty)
                        ELSE byType
      byLanguage == IF filterLanguage # "all"
                      THEN SelectSeq(byDifficulty, LAMBDA r : r.language = filterLanguage)
                      ELSE byDifficulty
  IN  IF Trim(searchTerm) # <<>>
        THEN SelectSeq(byLanguage, LAMBDA r : SearchMatches(r, searchTerm))
        ELSE byLanguage

\* A mutant of SearchInDeps: the effect does not depend on searchTerm.
SearchNotInDeps == FALSE

\* searchTerm is in the dependency array of the filter effect.
SearchInDeps == TRUE

\* A state setter of a dependency of the effect: a changed value renders again.
Rerender(changed) == effectPending' = (effectPending \/ changed)

NoRetake == 0

NoDelete == [id |-> 0, ok |-> FALSE, stale |-> FALSE]

NoQuestionResult == [from |-> 0]

\* The list is on the screen, not the loading screen.
ListShown == ~isLoading

ShownIds == { filteredHistory[k].id : k \in 1..Len(filteredHistory) }

HistIdle ==
  /\ studyHistory = <<>>
  /\ filteredHistory = <<>>
  /\ isLoading = TRUE
  /\ filterType = "all"
  /\ filterDifficulty = "all"
  /\ filterLanguage = "all"
  /\ searchTerm = <<>>
  /\ effectPending = FALSE
  /\ fetching = 0
  /\ fetchCount = 0
  /\ deleting = <<>>
  /\ deleteCount = 0
  /\ lastDelete = NoDelete
  /\ cleared = FALSE
  /\ isRetakingQuiz = NoRetake
  /\ retaking = <<>>
  /\ retakeCount = 0
  /\ questionResult = NoQuestionResult

HistFrame == UNCHANGED <<fetchVars, orchVars, inflight, httpCalls, parseVars, imgVars, quizVars>>

\* The effect on [user], which runs once for a user who stays signed in:
\* fetchStudyHistory sets isLoading and awaits getStudyHistory.
FetchStudyHistory ==
  /\ fetchCount = 0
  /\ fetchCount' = fetchCount + 1
  /\ fetching' = fetching + 1
  /\ isLoading' = TRUE
  /\ UNCHANGED <<studyHistory, filteredHistory, effectPending, deleting, deleteCount, lastDelete>>
  /\ UNCHANGED <<filterVars, retakeVars>>
  /\ HistFrame

\* getStudyHistory resolved with history: setStudyHistory, and setIsLoading(false).
FetchResolved(history) ==
  /\ fetching > 0
  /\ fetching' = fetching - 1
  /\ studyHistory' = history
  /\ effectPending' = TRUE
  /\ isLoading' = FALSE
  /\ UNCHANGED <<filteredHistory, fetchCount, deleting, deleteCount, lastDelete>>
  /\ UNCHANGED <<filterVars, retakeVars>>
  /\ HistFrame

\* getStudyHistory rejected: a toast, and setIsLoading(false).
FetchRejected ==
  /\ fetching > 0
  /\ fetching' = fetching - 1
  /\ isLoading' = FALSE
  /\ UNCHANGED <<studyHistory, filteredHistory, effectPending, fetchCount, deleting, deleteCount, lastDelete>>
  /\ UNCHANGED <<filterVars, retakeVars>>
  /\ HistFrame

\* The effect on [studyHistory, filterType, filterDifficulty, filterLanguage, searchTerm].
FilterEffect ==
  /\ effectPending
  /\ filteredHistory' = ApplyFilters
  /\ effectPending' = FALSE
  /\ UNCHANGED <<studyHistory, isLoading, fetching, fetchCount, deleting, deleteCount, lastDelete>>
  /\ UNCHANGED <<filterVars, retakeVars>>
  /\ HistFrame

SetFilterType(v) ==
  /\ ListShown
  /\ ~effectPending
  /\ filterType' = v
  /\ cleared' = FALSE
  /\ Rerender(v # filterType)
  /\ UNCHANGED <<filterDifficulty, filterLanguage, searchTerm>>
  /\ UNCHANGED <<studyHistory, filteredHistory, isLoading, fetching, fetchCount, deleting, deleteCount, lastDelete>>
  /\ UNCHANGED retakeVars
  /\ HistFrame

SetFilterDifficulty(v) ==
  /\ ListShown
  /\ ~effectPending
  /\ v \in {"all"} \cup UniqueDifficulties
  /\ filterDifficulty' = v
  /\ cleared' = FALSE
  /\ Rerender(v # filterDifficulty)
  /\ UNCHANGED <<filterType, filterLanguage, searchTerm>>
  /\ UNCHANGED <<studyHistory, filteredHistory, isLoading, fetching, fetchCount, deleting, deleteCount, lastDelete>>
  /\ UNCHANGED retakeVars
  /\ HistFrame

SetFilterLanguage(v) ==
  /\ ListShown
  /\ ~effectPending
  /\ v \in {"all"} \cup UniqueLanguages
  /\ filterLanguage' = v
  /\ cleared' = FALSE
  /\ Rerender(v # filterLanguage)
  /\ UNCHANGED <<filterType, filterDifficulty, searchTerm>>
  /\ UNCHANGED <<studyHistory, filteredHistory, isLoading, fetching, fetchCount, deleting, deleteCount, lastDelete>>
  /\ UNCHANGED retakeVars
  /\ HistFrame

SetSearchTerm(v) ==
  /\ ListShown
  /\ ~effectPending
  /\ searchTerm' = v
  /\ cleared' = FALSE
  /\ Rerender(SearchInDeps /\ v # searchTerm)
  /\ UNCHANGED <<filterType, filterDifficulty, filterLanguage>>
  /\ UNCHANGED <<studyHistory, filteredHistory, isLoading, fetching, fetchCount, deleting, deleteCount, lastDelete>>
  /\ UNCHANGED retakeVars
  /\ HistFrame

\* clearFilters: the four setters in one handler, one render.
ClearFilters ==
  /\ ListShown
  /\ ~effectPending
  /\ filterType' = "all"
  /\ filterDifficulty' = "all"
  /\ filterLanguage' = "all"
  /\ searchTerm' = <<>>
  /\ cleared' = TRUE
  /\ Rerender(\/ filterType # "all"
              \/ filterDifficulty # "all"
              \/ filterLanguage # "all"
              \/ SearchInDeps /\ searchTerm # <<>>)
  /\ UNCHANGED <<studyHistory, filteredHistory, isLoading, fetching, fetchCount, deleting, deleteCount, lastDelete>>
  /\ UNCHANGED retakeVars
  /\ HistFrame

\* handleDelete up to its await: the Delete button of a record shown.
HandleDelete(recordId) ==
  /\ ListShown
  /\ ~effectPending
  /\ recordId \in ShownIds
  /\ deleteCount + Len(deleting) < MaxDeletes
  /\ deleting' = Append(deleting, [id |-> recordId, seen |-> studyHistory])
  /\ UNCHANGED <<studyHistory, filteredHistory, isLoading, effectPending, fetching, fetchCount, deleteCount, lastDelete>>
  /\ UNCHANGED <<filterVars, retakeVars>>
  /\ HistFrame

RemoveAt(q, j) == SubSeq(q, 1, j - 1) \o SubSeq(q, j + 1, Len(q))

\* A mutant of WithoutRecord: the filter runs on the list handleDelete saw.
WithoutRecordStale(prev, call) == SelectSeq(call.seen, LAMBDA r : r.id # call.id)

\* setStudyHistory(prev => prev.filter(record => record.id !== recordId))
WithoutRecord(prev, call) == SelectSeq(prev, LAMBDA r : r.id # call.id)

\* deleteStudyHistory settled for the call at position j of those in flight.
DeleteSettled(j, ok) ==
  /\ j \in 1..Len(deleting)
  /\ deleting' = RemoveAt(deleting, j)
  /\ deleteCount' = deleteCount + 1
  /\ lastDelete' = [id |-> deleting[j].id, ok |-> ok, stale |-> deleting[j].seen # studyHistory]
  /\ IF ok
       THEN /\ studyHistory' = WithoutRecord(studyHistory, deleting[j])
            /\ effectPending' = TRUE
       ELSE UNCHANGED <<studyHistory, effectPending>>
  /\ UNCHANGED <<filteredHistory, isLoading, fetching, fetchCount>>
  /\ UNCHANGED <<filterVars, retakeVars>>
  /\ HistFrame

ShownRecord(id) == CHOOSE r \in { filteredHistory[k] : k \in 1..Len(filteredHistory) } : r.id = id

\* The Retake button is rendered for the record and is not disabled.
RetakeEnabled(id) ==
  /\ id \in ShownIds
  /\ ShownRecord(id).type = "analysis"
  /\ ShownRecord(id).analysisData
  /\ isRetakingQuiz # id

\* handleRetakeQuiz up to its await; the button is rendered only for a record
\* with analysisData, so the early return is not taken.
HandleRetakeQuiz(id) ==
  /\ ListShown
  /\ ~effectPending
  /\ RetakeEnabled(id)
  /\ retakeCount < MaxRetakes
  /\ retakeCount' = retakeCount + 1
  /\ isRetakingQuiz' = id
  /\ retaking' = Append(retaking, id)
  /\ UNCHANGED questionResult
  /\ UNCHANGED <<listVars, filterVars>>
  /\ HistFrame

\* generateQuestions settled for the call at position j of those in flight:
\* the quiz goes to the context, or a toast; finally setIsRetakingQuiz(null).
RetakeSettled(j, ok) ==
  /\ j \in 1..Len(retaking)
  /\ retaking' = RemoveAt(retaking, j)
  /\ questionResult' = IF ok THEN [from |-> retaking[j]] ELSE questionResult
  /\ isRetakingQuiz' = NoRetake
  /\ UNCHANGED retakeCount
  /\ UNCHANGED <<listVars, filterVars>>
  /\ HistFrame

AppIdle == ImgIdle /\ QuizIdle /\ HistIdle

ParseIdle ==
  /\ ppc = "idle"
  /\ parseIn = <<>>
  /\ parseArg = <<>>
  /\ parseOut = [ok |-> FALSE, value |-> JsonNull]
  /\ parseErr = NoParseError
  /\ parseLog = <<>>
  /\ plainOut = [ok |-> FALSE, value |-> JsonNull]

OrchIdle ==
  /\ version = "none"
  /\ pages = <<>>
  /\ opc = "idle"
  /\ idx = 0
  /\ resp = NoResponse
  /\ pageAnalyses = <<>>
  /\ allKeyPoints = <<>>
  /\ allCategories = <<>>
  /\ log = <<>>
  /\ aggregate = NoAggregate
  /\ timer = 0
  /\ called = {}
  /\ answered = <<>>
  /\ batchStart = 0
  /\ batchPos = 1
  /\ visited = <<>>
  /\ invocations = 0
  /\ pause = 0

\* The state at the call of the run, but for version and pages.
OrchStart ==
  /\ opc = "loop"
  /\ idx = 1
  /\ resp = NoResponse
  /\ pageAnalyses = <<>>
  /\ allKeyPoints = <<>>
  /\ allCategories = <<>>
  /\ log = <<>>
  /\ aggregate = NoAggregate
  /\ timer = 0
  /\ called = {}
  /\ answered = [k \in 1..Len(pages) |-> NoResponse]
  /\ batchStart = 0
  /\ batchPos = 1
  /\ visited = <<>>
  /\ invocations = 0
  /\ pause = 0
  /\ inflight = 0
  /\ httpCalls = 0
  /\ FwrIdle
  /\ ParseIdle
  /\ AppIdle

\* The run is called with the text of some pages.
InitBatch ==
  /\ version \in {"part000", "gemini"}
  /\ pages \in {WithPageNumbers(q) : q \in PageSeqs}
  /\ OrchStart

NextBatch ==
  \/ OSkip
  \/ OFinish
  \/ ODelayFire
  \/ Call000
  \/ FwrAttempt
  \/ \E r \in BatchAnswers : FwrFetchSettle(r)
  \/ FwrTimer
  \/ PageFetchReturned000
  \/ PageFetchThrown000
  \/ JsonSettle000
  \/ CallGemini
  \/ \E r \in BatchAnswers : GFetchSettle(r)
  \/ GJsonSettle

SpecBatch == InitBatch /\ [][NextBatch]_vars

\* The runs whose completion is followed: fewer pages, every answer.
LivePageSeqs ==
  UNION {[1..n -> {[pageNumber |-> 0, length |-> l] : l \in PageLengths}] : n \in 0..MaxLivePages}

InitLive ==
  /\ version \in {"part000", "gemini"}
  /\ pages \in {WithPageNumbers(q) : q \in LivePageSeqs}
  /\ OrchStart

\* The code between two awaits runs; every fetch settles; every timer fires.
CodeSteps ==
  \/ OSkip
  \/ OFinish
  \/ Call000
  \/ FwrAttempt
  \/ PageFetchReturned000
  \/ PageFetchThrown000
  \/ JsonSettle000
  \/ CallGemini
  \/ GJsonSettle

TransportSteps ==
  \/ \E r \in BatchAnswers : FwrFetchSettle(r)
  \/ \E r \in BatchAnswers : GFetchSettle(r)

TimerSteps == ODelayFire \/ FwrTimer

\* The runs against a model that also answers with JSON of another shape.
ShapePageSeqs ==
  UNION {[1..n -> {[pageNumber |-> 0, length |-> l] : l \in PageLengths}] : n \in 0..MaxShapePages}

InitShapes ==
  /\ version \in {"part000", "gemini"}
  /\ pages \in {WithPageNumbers(q) : q \in ShapePageSeqs}
  /\ OrchStart

NextShapes ==
  \/ OSkip
  \/ OFinish
  \/ ODelayFire
  \/ Call000
  \/ FwrAttempt
  \/ \E r \in ShapeAnswers : FwrFetchSettle(r)
  \/ FwrTimer
  \/ PageFetchReturned000
  \/ PageFetchThrown000
  \/ JsonSettle000
  \/ CallGemini
  \/ \E r \in ShapeAnswers : GFetchSettle(r)
  \/ GJsonSettle

SpecShapes == InitShapes /\ [][NextShapes]_vars

\* The runs of part_000 against a transport whose every answer, of every
\* status, carries a body that would parse.
ApiPageSeqs ==
  UNION {[1..n -> {[pageNumber |-> 0, length |-> l] : l \in PageLengths}] : n \in 0..MaxApiPages}

ApiAnswers == {Response(st, Body(TRUE, TextFencedA)) : st \in Statuses} \cup {Rejected}

InitApi ==
  /\ version = "part000"
  /\ pages \in {WithPageNumbers(q) : q \in ApiPageSeqs}
  /\ OrchStart

NextApi ==
  \/ OSkip
  \/ OFinish
  \/ ODelayFire
  \/ Call000
  \/ FwrAttempt
  \/ \E r \in ApiAnswers : FwrFetchSettle(r)
  \/ FwrTimer
  \/ PageFetchReturned000
  \/ PageFetchThrown000
  \/ JsonSettle000

SpecApi == InitApi /\ [][NextApi]_vars

\* The texts safeParseJson is called with.
TextTokens == {Fence, "json", NL, Blank, "x"} \cup JsonTokens
Texts == UNION {[1..n -> TextTokens] : n \in 0..MaxTextLen}

InitParse ==
  /\ ppc = "start"
  /\ parseIn \in Texts
  /\ parseArg = <<>>
  /\ parseOut = [ok |-> FALSE, value |-> JsonNull]
  /\ parseErr = NoParseError
  /\ parseLog = <<>>
  /\ plainOut = [ok |-> FALSE, value |-> JsonNull]
  /\ FwrIdle
  /\ OrchIdle
  /\ inflight = 0
  /\ httpCalls = 0
  /\ AppIdle

NextParse ==
  \/ ParsePlain
  \/ \E nlOpen \in BOOLEAN : \E nlClose \in BOOLEAN : ParseFenced(nlOpen, nlClose)

SpecParse == InitParse /\ [][NextParse]_vars

\* The runs of geminiService.ts over several batches of pages: the model
\* answers with key points, or with a page without key points, or fails.
ChunkPageSeqs ==
  UNION {[1..n -> {[pageNumber |-> 0, length |-> l] : l \in PageLengths}] : n \in 0..MaxChunkPages}

ChunkPages == {WithPageNumbers(q) : q \in ChunkPageSeqs}

ChunkAnswers == {Response(200, Body(TRUE, TextFencedA)), Response(500, NoBody)}

InitChunk ==
  /\ version = "gemini"
  /\ pages \in ChunkPages
  /\ OrchStart

NextChunk ==
  \/ OSkip
  \/ OFinish
  \/ ODelayFire
  \/ CallGemini
  \/ \E r \in ChunkAnswers : GFetchSettle(r)
  \/ GJsonSettle

SpecChunk == InitChunk /\ [][NextChunk]_vars

FairSpecBatch ==
  /\ InitLive
  /\ [][NextBatch]_vars
  /\ WF_vars(CodeSteps)
  /\ WF_vars(TransportSteps)
  /\ WF_vars(TimerSteps)

----------------------------------------------------------------------------
(* Specification of one invocation of fetchWithRetry against a mock transport *)

InitFetch ==
  /\ fpc = "loop"
  /\ retries \in 0..MaxRetries
  /\ delay \in InitialDelays
  /\ delay0 = delay
  /\ i = 0
  /\ result = NoResponse
  /\ error = NoError
  /\ attempts = <<>>
  /\ waits = <<>>
  /\ caught = <<>>
  /\ OrchIdle
  /\ inflight = 0
  /\ httpCalls = 0
  /\ ParseIdle
  /\ AppIdle

NextFetch ==
  \/ FwrAttempt
  \/ \E r \in FetchAnswers : FwrFetchSettle(r)
  \/ FwrTimer

SpecFetch == InitFetch /\ [][NextFetch]_vars

\* Every fetch call and every timer eventually completes, and the code between runs.
FairSpecFetch ==
  /\ SpecFetch
  /\ WF_vars(FwrAttempt)
  /\ WF_vars(\E r \in FetchAnswers : FwrFetchSettle(r))
  /\ WF_vars(FwrTimer)

\* analyzeMultipleImages is called with some files.
FileSeqs == UNION { [1..n -> FileTypes] : n \in 0..MaxFiles }

InitImages ==
  /\ mpc = "loop"
  /\ files \in FileSeqs
  /\ fidx = 1
  /\ analysisResults = <<>>
  /\ imageCalls = <<>>
  /\ questionCalls = <<>>
  /\ mOutcome = NoOutcome
  /\ QuizIdle
  /\ HistIdle
  /\ FwrIdle
  /\ OrchIdle
  /\ ParseIdle
  /\ inflight = 0
  /\ httpCalls = 0

NextImages ==
  \/ MSkipFile
  \/ MCallImage
  \/ \E ok \in BOOLEAN : MImageSettle(ok)
  \/ MAfterLoop
  \/ \E ok \in BOOLEAN : MQuestionsSettle(ok)

SpecImages == InitImages /\ [][NextImages]_vars

\* generateQuestions is called with the results of some analyses.
QuizArgs ==
  { <<>>,
    << [keyPoints |-> <<"k1", "k2">>, summary |-> "s1"],
       [keyPoints |-> <<>>, summary |-> "s2"] >> }

InitQuiz ==
  /\ qpc = "call"
  /\ qversion \in {"part000", "gemini"}
  /\ qargs \in QuizArgs
  /\ qdifficulty \in {"medium", "hard"}
  /\ qanswer = NoQuizAnswer
  /\ qresult = NoQuizResult
  /\ qerror = NoQuizError
  /\ ImgIdle
  /\ HistIdle
  /\ FwrIdle
  /\ OrchIdle
  /\ ParseIdle
  /\ inflight = 0
  /\ httpCalls = 0

NextQuiz ==
  \/ QCall
  \/ \E a \in QuizAnswers : QSettle(a)

SpecQuiz == InitQuiz /\ [][NextQuiz]_vars

RestIdle ==
  /\ ImgIdle
  /\ QuizIdle
  /\ FwrIdle
  /\ OrchIdle
  /\ ParseIdle
  /\ inflight = 0
  /\ httpCalls = 0

\* The component is mounted for a signed-in user: the first fetch has not started.
InitHistory ==
  /\ HistIdle
  /\ RestIdle

NextHistory ==
  \/ FetchStudyHistory
  \/ \E h \in Histories : FetchResolved(h)
  \/ FetchRejected
  \/ FilterEffect
  \/ \E v \in {"all", "analysis", "quiz"} : SetFilterType(v)
  \/ \E v \in {"all", "easy", "hard"} : SetFilterDifficulty(v)
  \/ \E v \in {"all", "english", "tamil"} : SetFilterLanguage(v)
  \/ \E v \in SearchTerms : SetSearchTerm(v)
  \/ ClearFilters
  \/ \E id \in 1..MaxRecords : HandleDelete(id)
  \/ \E j \in 1..MaxDeletes, ok \in BOOLEAN : DeleteSettled(j, ok)

SpecHistory == InitHistory /\ [][NextHistory]_vars

\* The list is shown with some history and no filter.
InitShown ==
  /\ studyHistory \in Histories
  /\ filteredHistory = studyHistory
  /\ isLoading = FALSE
  /\ filterType = "all"
  /\ filterDifficulty = "all"
  /\ filterLanguage = "all"
  /\ searchTerm = <<>>
  /\ effectPending = FALSE
  /\ fetching = 0
  /\ fetchCount = 1
  /\ deleting = <<>>
  /\ deleteCount = 0
  /\ lastDelete = NoDelete
  /\ cleared = FALSE
  /\ isRetakingQuiz = NoRetake
  /\ retaking = <<>>
  /\ retakeCount = 0
  /\ questionResult = NoQuestionResult
  /\ RestIdle

NextRetake ==
  \/ \E id \in 1..MaxRecords : HandleRetakeQuiz(id)
  \/ \E j \in 1..MaxRetakes, ok \in BOOLEAN : RetakeSettled(j, ok)

SpecRetake == InitShown /\ [][NextRetake]_vars

NextDelete ==
  \/ \E id \in 1..MaxRecords : HandleDelete(id)
  \/ \E j \in 1..MaxDeletes, ok \in BOOLEAN : DeleteSettled(j, ok)
  \/ FilterEffect

SpecDelete == InitShown /\ [][NextDelete]_vars

----------------------------------------------------------------------------
(* Vocabulary of the claims about fetchWithRetry *)

\* The fetch calls made so far: the settled ones and the one in flight.
FetchCalls == Len(attempts) + (IF fpc = "awaitFetch" THEN 1 ELSE 0)

Success2xx(r) == ~r.rejected /\ r.status \in 200..299
ClientError4xx(r) == ~r.rejected /\ r.status \in 400..499
ServerError5xx(r) == ~r.rejected /\ r.status \in 500..599

\* The attempts that failed: every settled fetch that did not answer 2xx.
FailedAttempts == {k \in 1..Len(attempts) : ~Success2xx(attempts[k])}

\* The duration of the k-th backoff wait of an invocation called with delay d.
BackoffWait(d, k) == d * 2^(k - 1)

----------------------------------------------------------------------------
(* C1..C8: fetchWithRetry *)

\* C1: when the transport answers the first fetch with a client error (4xx),
\* and retries >= 1, exactly one fetch call is made, no backoff wait happens
\* and the invocation has failed.
C1_ClientErrorFailsImmediately ==
  (retries >= 1 /\ Len(attempts) >= 1 /\ ClientError4xx(attempts[1]))
    => (FetchCalls = 1 /\ waits = <<>> /\ fpc = "thrown")

\* C2: the retries parameter is the number of retries after a failure: with the
\* default arguments and a transport that answers 500 three times, the
\* invocation does not give up after the third answer but fetches a fourth
\* time (3 retries); it fails only after retries + 1 fetch calls.
C2_RetriesCountsRetries ==
  ( /\ retries = DefaultRetries
    /\ delay0 = DefaultDelay
    /\ Len(attempts) >= 3
    /\ \A k \in 1..3 : ServerError5xx(attempts[k]) /\ attempts[k].status = 500 )
  => (fpc = "thrown" => Len(attempts) = retries + 1)

C4_ExhaustedErrorDistinct ==
  fpc = "thrown" =>
    /\ error = ExhaustedError(retries)
    /\ i = retries
    /\ \A k \in 1..Len(caught) : caught[k] # error
    /\ error.kind \notin {"http", "network"}

C4_Witness ==
  /\ fpc = "thrown"
  /\ retries >= 2
  /\ \E k \in 1..Len(caught) : caught[k].kind = "http"
  /\ \E k \in 1..Len(caught) : caught[k].kind = "network"

\* C5: a 2xx answer ends the invocation at once: it is the last fetch, it is
\* the response returned, and no wait follows it (the waits are those of the
\* failures before it).
C5_SuccessReturnsImmediately ==
  \A k \in 1..Len(attempts) :
    Success2xx(attempts[k]) =>
      /\ k = Len(attempts)
      /\ FetchCalls = k
      /\ fpc = "returned"
      /\ result = attempts[k]
      /\ Len(waits) = k - 1

C5_Witness ==
  /\ fpc = "returned"
  /\ Len(attempts) = 3
  /\ result.status = 204
  /\ Len(waits) = 2

\* C6: while every failure is a 5xx, the k-th wait lasts delay0 * 2^(k-1), the
\* delay in force after k waits is delay0 * 2^k, and the waits never get shorter.
C6_ServerErrorBackoffDoubles ==
  (\A k \in FailedAttempts : ServerError5xx(attempts[k])) =>
    /\ \A k \in 1..Len(waits) : waits[k] = BackoffWait(delay0, k)
    /\ delay = delay0 * 2^i
    /\ \A k \in 1..(Len(waits) - 1) : waits[k] <= waits[k + 1]
    /\ delay >= delay0

C6_Witness ==
  /\ delay0 = DefaultDelay
  /\ Len(attempts) = 3
  /\ \A k \in 1..3 : ServerError5xx(attempts[k])
  /\ waits = <<1000, 2000, 4000>>
  /\ fpc = "thrown"

\* C7: every failed attempt, network failure or not, is followed by one wait,
\* and the k-th wait lasts delay0 * 2^(k-1) whatever kinds of failure came
\* before it: the waits are a function of the number of failed attempts.
C7_NetworkFailureSameBackoff ==
  /\ Len(waits) = Cardinality(FailedAttempts)
  /\ \A k \in 1..Len(waits) : waits[k] = BackoffWait(delay0, k)
  /\ Cardinality({k \in 1..Len(caught) : caught[k] = NetworkError})
       = Cardinality({k \in 1..Len(attempts) : attempts[k].rejected})

C7_Witness ==
  /\ Len(attempts) = 3
  /\ attempts[1].rejected
  /\ ServerError5xx(attempts[2])
  /\ attempts[3].rejected
  /\ Len(waits) = 3

\* C8: when every fetch and every timer completes, the invocation ends: it
\* returns a response or throws.
C8_Terminates == <>FwrDone

C8_Witness ==
  /\ FwrDone
  /\ retries = MaxRetries
  /\ Len(attempts) = MaxRetries
  /\ Len(waits) >= DefaultRetries

----------------------------------------------------------------------------
(* Vocabulary of the claims about the batch orchestrator *)

\* The segments that are not skipped for size.
LongSegments == {k \in 1..Len(pages) : pages[k].length >= MinContentLength}

\* The processing of segment k is over.
SegmentDone(k) == k < idx \/ opc = "returned"

\* What the model answered for segment k is usable: a 2xx response whose body
\* carries a text that, without its fences, is a JSON object.
AnswerUsable(a) ==
  /\ Success2xx(a)
  /\ a.body.json
  /\ a.body.content # <<>>
  /\ LET parsed == safeParseJson(a.body.content) IN parsed.ok /\ parsed.value.isObject

\* The segments whose processing failed, and those that succeeded.
FailedSegments == {k \in LongSegments : SegmentDone(k) /\ ~AnswerUsable(answered[k])}
SucceededSegments == {k \in LongSegments : SegmentDone(k) /\ AnswerUsable(answered[k])}

\* The key points the model returned for segment k.
ReturnedKeyPoints(k) == KeyPointsOrEmpty(safeParseJson(answered[k].body.content).value)

\* The entries and the key points of the succeeded segments among the first n, in input order.
RECURSIVE ExpectedAnalyses(_)
ExpectedAnalyses(n) ==
  IF n = 0 THEN <<>>
  ELSE IF n \in SucceededSegments
    THEN Append(ExpectedAnalyses(n - 1),
                [pageNumber |-> pages[n].pageNumber, keyPoints |-> ReturnedKeyPoints(n)])
    ELSE ExpectedAnalyses(n - 1)

RECURSIVE ExpectedKeyPoints(_)
ExpectedKeyPoints(n) ==
  IF n = 0 THEN <<>>
  ELSE IF n \in SucceededSegments
    THEN ExpectedKeyPoints(n - 1) \o ReturnedKeyPoints(n)
    ELSE ExpectedKeyPoints(n - 1)

----------------------------------------------------------------------------
(* C9, C10: the batch orchestrator *)

\* C9: no failure of a segment aborts the run, in either version: the run never
\* ends by throwing, what it waits for after a segment (failed or not) is the
\* rate-limit timer, every segment before the current one has been visited and
\* has got its model call unless it was skipped for size, and a run that has
\* returned has visited them all.
C9_FailureNeverAborts ==
  /\ opc # "thrown"
  /\ opc = "awaitDelay" <=> timer > 0
  /\ \A k \in 1..Len(pages) : SegmentDone(k) => (k \in called <=> k \in LongSegments)
  /\ opc = "returned" => idx = Len(pages) + 1 /\ called = LongSegments

C9_Witness ==
  /\ version = "gemini"
  /\ opc = "returned"
  /\ Len(pages) = 5
  /\ answered[1].status = 500
  /\ answered[2].rejected
  /\ answered[3].body.content = <<>> /\ Success2xx(answered[3])
  /\ answered[4].body.content = TextJunk
  /\ 5 \in called
  /\ 5 \in SucceededSegments

----------------------------------------------------------------------------
(* C11: the run completes *)

\* C11: whatever the pages and whatever the model answers, the run never
\* raises and eventually returns an aggregate; when no segment succeeded
\* (all failed, all skipped, no page at all) the aggregate is the empty one,
\* of count 0.
C11_AlwaysReturnsAggregate ==
  /\ [](opc # "thrown")
  /\ <>(opc = "returned")
  /\ [](opc = "returned" /\ SucceededSegments = {} =>
          /\ aggregate.pageCount = 0
          /\ aggregate.keyPointCount = 0
          /\ aggregate.pageAnalyses = <<>>
          /\ aggregate.totalKeyPoints = <<>>)

\* A run of three pages returned: one skipped, the model calls of the two others failed.
C11_Witness ==
  /\ opc = "returned"
  /\ Len(pages) = 3
  /\ LongSegments = {1, 3}
  /\ FailedSegments = {1, 3}
  /\ answered[1].rejected
  /\ aggregate.pageCount = 0

----------------------------------------------------------------------------
(* C12: the calls of a run *)

\* C12 as stated: every segment that is not skipped costs exactly one HTTP
\* call, so once the model call of a segment is over exactly one HTTP request
\* has been issued for it, and a run that returned has issued one per
\* non-skipped segment.
C12_OneHttpCallPerSegment ==
  /\ invocations > 0 /\ opc # "awaitPage" => httpCalls = 1
  /\ opc = "returned" => invocations = Cardinality(LongSegments)

\* C12 amended: every segment that is not skipped gets exactly one model call
\* (never a skipped one, never one twice), so a run that returned has issued
\* as many model calls as there are non-skipped segments. In geminiService.ts
\* a model call is one HTTP request; in part_000 it is one invocation of
\* fetchWithRetry, which issues between 1 and 3 HTTP requests.
C12_OneModelCallPerSegment ==
  /\ called \subseteq LongSegments
  /\ invocations = Cardinality(called)
  /\ opc = "returned" => called = LongSegments
  /\ version = "gemini" /\ invocations > 0 => httpCalls = 1
  /\ version = "part000" /\ invocations > 0 =>
       /\ httpCalls <= DefaultRetries
       /\ opc # "awaitPage" => httpCalls >= 1

\* A part_000 run returned after three model calls, the last of which took
\* three HTTP requests, with a skipped page in between.
C12_Witness ==
  /\ version = "part000"
  /\ opc = "returned"
  /\ Len(pages) = 4
  /\ LongSegments = {1, 2, 4}
  /\ invocations = 3
  /\ httpCalls = 3
  /\ 4 \in SucceededSegments

----------------------------------------------------------------------------
(* C13: the delay between two model calls *)

\* C13: when the loop is about to issue a model call and has issued one
\* before, the fixed delay of the version (500 ms in geminiService.ts, 200 ms
\* in part_000) has been waited since that earlier call, whether it succeeded
\* or failed.
C13_FixedDelayBetweenCalls ==
  AtSegment /\ ~IsSparse(CurrentSegment) /\ invocations > 0 =>
    pause = (IF version = "gemini" THEN PageDelayGemini ELSE PageDelay000)

----------------------------------------------------------------------------
(* C14: sparse segments *)

\* C14: a segment of fewer than 50 characters is skipped: no model call is
\* ever issued for it, no answer is received for it, no entry of pageAnalyses
\* carries its page number, no log line names it, the loop never awaits
\* anything while at it, the results are then those of the segments before
\* it, and the loop goes on to the end of the pages.
C14_SparseSegmentSkipped ==
  /\ \A k \in 1..Len(pages) : pages[k].length < MinContentLength =>
       /\ k \notin called
       /\ answered[k] = NoResponse
       /\ \A j \in 1..Len(pageAnalyses) : pageAnalyses[j].pageNumber # pages[k].pageNumber
       /\ \A j \in 1..Len(log) : log[j].page # pages[k].pageNumber
  /\ HasSegment /\ CurrentSegment.length < MinContentLength =>
       /\ opc = "loop"
       /\ pageAnalyses = ExpectedAnalyses(idx - 1)
       /\ allKeyPoints = ExpectedKeyPoints(idx - 1)
  /\ opc = "returned" => idx = Len(pages) + 1

\* A run returned whose second page, of 49 characters, was skipped between
\* two pages that were analyzed.
C14_Witness ==
  /\ opc = "returned"
  /\ Len(pages) = 3
  /\ pages[2].length = MinContentLength - 1
  /\ called = {1, 3}
  /\ Len(aggregate.pageAnalyses) = 2
  /\ aggregate.pageAnalyses[2].pageNumber = 3

----------------------------------------------------------------------------
(* C15: the order of the results *)

\* The concatenation of the keyPoints of the entries of a list of analyses.
RECURSIVE FlattenKeyPoints(_)
FlattenKeyPoints(entries) ==
  IF entries = <<>> THEN <<>>
  ELSE FlattenKeyPoints(SubSeq(entries, 1, Len(entries) - 1)) \o entries[Len(entries)].keyPoints

\* The segments whose entry has been pushed: those done, and the one whose
\* rate-limit delay is being waited.
SegmentPushed(k) == k < idx \/ (k = idx /\ opc = "awaitDelay")

\* C15: at every moment of a run pageAnalyses lists the segments that were
\* successfully processed so far, in input order: the page numbers of its
\* entries increase strictly (a subsequence of the input, nothing twice), they
\* are exactly those of the segments processed whose answer was usable, each
\* entry carries the key points the model returned for its page, and
\* allKeyPoints (totalKeyPoints of the aggregate) is the concatenation of the
\* keyPoints of the entries, in the order of the entries.
C15_OrderedAccumulation ==
  /\ \A j \in 1..Len(pageAnalyses) : \A l \in 1..Len(pageAnalyses) :
       j < l => pageAnalyses[j].pageNumber < pageAnalyses[l].pageNumber
  /\ {pageAnalyses[j].pageNumber : j \in 1..Len(pageAnalyses)}
       = {pages[k].pageNumber : k \in {m \in LongSegments : SegmentPushed(m) /\ AnswerUsable(answered[m])}}
  /\ \A j \in 1..Len(pageAnalyses) :
       pageAnalyses[j].keyPoints = ReturnedKeyPoints(pageAnalyses[j].pageNumber)
  /\ allKeyPoints = FlattenKeyPoints(pageAnalyses)
  /\ opc = "returned" =>
       /\ aggregate.pageAnalyses = pageAnalyses
       /\ aggregate.totalKeyPoints = FlattenKeyPoints(aggregate.pageAnalyses)

----------------------------------------------------------------------------
(* C16: the counts of overallSummary *)

\* The model call for segment k succeeded and what it returned parsed.
CallAndParseSucceeded(a) ==
  /\ Success2xx(a)
  /\ a.body.json
  /\ a.body.content # <<>>
  /\ safeParseJson(a.body.content).ok

\* C16 as stated: in the aggregate a run returns, the page count of
\* overallSummary is the length of pageAnalyses, which is the number of
\* segments whose model call and parse both succeeded, and the key-point
\* count of overallSummary is the length of totalKeyPoints.
C16_CountsParsedSegments ==
  opc = "returned" =>
    /\ aggregate.pageCount = Len(aggregate.pageAnalyses)
    /\ Len(aggregate.pageAnalyses)
         = Cardinality({k \in LongSegments : CallAndParseSucceeded(answered[k])})
    /\ aggregate.keyPointCount = Len(aggregate.totalKeyPoints)

\* C16 amended: in the aggregate a run returns, the page count of
\* overallSummary is the length of pageAnalyses, which is the number of
\* segments whose model call answered 2xx with a content that parsed to a
\* JSON value other than null (every non-skipped segment is either one of
\* these or a failed one), and the key-point count of overallSummary is the
\* length of totalKeyPoints.
C16_SummaryCounts ==
  opc = "returned" =>
    /\ aggregate.pageCount = Len(aggregate.pageAnalyses)
    /\ Len(aggregate.pageAnalyses) = Cardinality(SucceededSegments)
    /\ aggregate.keyPointCount = Len(aggregate.totalKeyPoints)
    /\ Cardinality(SucceededSegments) + Cardinality(FailedSegments) = invocations

\* A part_000 run of three pages returned: three model calls, one answered
\* with key points, one with the JSON value null, one with a page without
\* key points.
C16_Witness ==
  /\ version = "part000"
  /\ opc = "returned"
  /\ invocations = 3
  /\ answered[2].body.content = TextNull
  /\ aggregate.pageCount = 2
  /\ aggregate.keyPointCount = 2
  /\ FailedSegments = {2}

----------------------------------------------------------------------------
(* C17: one call at a time *)

\* The model calls issued whose answer has not yet decided their segment.
CallsInFlight == invocations - Cardinality({k \in called : answered[k] # NoResponse})

\* C17: at every moment of a run at most one HTTP request and at most one
\* model call is in flight, and while the call of a segment is in flight
\* every segment called before it has been left by the loop, with its answer
\* received and its rate-limit delay over; outside a call nothing is in flight.
C17_StrictlySequential ==
  /\ inflight <= 1
  /\ CallsInFlight <= 1
  /\ opc \in {"awaitPage", "awaitFetch"} =>
       /\ CallsInFlight = 1
       /\ timer = 0
       /\ \A k \in called \ {PageNumber} :
            /\ k < PageNumber
            /\ \E j \in 1..Len(visited) : visited[j] = k
            /\ answered[k] # NoResponse
  /\ opc \notin {"awaitPage", "awaitFetch"} => CallsInFlight = 0 /\ inflight = 0

\* The HTTP request of the call for the third page is in flight, after the
\* call for the first page succeeded and that for the second failed.
C17_Witness ==
  /\ inflight = 1
  /\ PageNumber = 3
  /\ called = {1, 2, 3}
  /\ 1 \in SucceededSegments
  /\ 2 \in FailedSegments
  /\ answered[3] = NoResponse

----------------------------------------------------------------------------
(* C18: the batches of geminiService.ts *)

\* The first n page numbers in input order: what a flat loop over the pages visits.
FlatOrder(n) == [k \in 1..n |-> pages[k].pageNumber]

\* C18: the grouping of the pages in batches of 5 cannot be observed: at
\* every moment the segments the two nested loops have left are the first
\* segments of the input, in input order, each once; the segment they are at
\* is the next of the input; the model calls issued are those of the
\* non-skipped segments among these; and the run ends after the last segment
\* with the aggregate of a flat loop over all the pages.
C18_BatchesAreFlatLoop ==
  version = "gemini" =>
    /\ visited = FlatOrder(Len(visited))
    /\ idx = Len(visited) + 1
    /\ HasSegment <=> idx <= Len(pages)
    /\ HasSegment => CurrentSegment = pages[idx] /\ batchStart + batchPos = idx
    /\ called = {k \in LongSegments : k < idx \/ (k = idx /\ opc # "loop")}
    /\ invocations = Cardinality(called)
    /\ opc = "returned" =>
         /\ Len(visited) = Len(pages)
         /\ aggregate.pageAnalyses = ExpectedAnalyses(Len(pages))
         /\ aggregate.totalKeyPoints = ExpectedKeyPoints(Len(pages))
         /\ aggregate.pageCount = Cardinality(SucceededSegments)

\* A run of seven pages returned: the fifth page, last of the first batch,
\* failed with a `continue`, the sixth, first of the second batch, succeeded.
C18_Witness ==
  /\ version = "gemini"
  /\ opc = "returned"
  /\ Len(pages) = 7
  /\ 5 \in FailedSegments
  /\ answered[5].status = 500
  /\ {6, 7} \subseteq SucceededSegments
  /\ batchStart = 10

----------------------------------------------------------------------------
(* C19, C20: safeParseJson *)

\* C19: for every content c, safeParseJson of c between the fences
\* (opening fence with the word json, closing fence, each with or without
\* its line break) has the outcome of safeParseJson of c itself: the same
\* value, or a failure in both cases.
C19_FencedParsesIdentically ==
  ppc = "fencedDone" => parseOut = plainOut

\* The text t occurs in the message msg.
Contains(msg, t) ==
  \E k \in 1..(Len(msg) + 1) : k + Len(t) - 1 <= Len(msg) /\ SubSeq(msg, k, k + Len(t) - 1) = t

\* A call of safeParseJson is over and has failed.
ParseFailed == ppc \in {"plainDone", "fencedDone"} /\ ~parseOut.ok

\* C20 as stated: when the parse fails, the error thrown to the caller
\* contains the unmodified input text.
C20_ErrorCarriesInput ==
  ParseFailed => parseErr.thrown /\ Contains(parseErr.message, parseArg)

\* C20 amended: when the parse fails, the unmodified input text goes to the
\* log (the rawContent of the console.error line of this call), and the error
\* thrown to the caller is the fixed one, the same for every input, whose
\* message is "Invalid JSON response from API. The response could not be
\* parsed."; a call that succeeds throws nothing and logs nothing.
C20_LogCarriesInput ==
  /\ ParseFailed =>
       /\ parseErr = InvalidJsonError
       /\ parseLog # <<>>
       /\ parseLog[Len(parseLog)].rawContent = parseArg
  /\ ppc \in {"plainDone", "fencedDone"} /\ parseOut.ok =>
       /\ parseErr = NoParseError
       /\ Len(parseLog) = (IF ppc = "fencedDone" /\ ~plainOut.ok THEN 1 ELSE 0)

\* The call on a fenced text failed: the log line holds the text with its
\* fences, not the cleaned text that was parsed.
C20_Witness ==
  /\ ppc = "fencedDone"
  /\ ~parseOut.ok
  /\ parseIn = <<"x", Blank>>
  /\ parseArg = <<Fence, "json", NL, "x", Blank, NL, Fence>>
  /\ parseLog[2].rawContent = parseArg
  /\ parseErr.message = InvalidJsonMessage

----------------------------------------------------------------------------
(* C21: the error of safeParseJson *)

\* C21: for every text, a call of safeParseJson either returns the parsed
\* value (nothing thrown, nothing logged by this call) or throws the one
\* Error of message "Invalid JSON response from API. The response could not
\* be parsed.", the same for every text; this message is none of the messages
\* of fetchWithRetry (HTTP status, attempts exhausted, network failure) and
\* not the message 'No content received from Gemini API'.
C21_SingleDistinguishableError ==
  ppc \in {"plainDone", "fencedDone"} =>
    /\ parseOut.ok => parseErr = NoParseError
    /\ ~parseOut.ok =>
         /\ parseErr.thrown
         /\ parseErr.message = InvalidJsonMessage
         /\ \A st \in Statuses : parseErr.message # MessageOf(HttpError(st))
         /\ \A n \in 0..MaxRetries : parseErr.message # MessageOf(ExhaustedError(n))
         /\ parseErr.message # MessageOf(NetworkError)
         /\ parseErr.message # NoContentMessage

\* Two calls have failed, on a text that is no JSON and on its fenced form,
\* with the same error.
C21_Witness ==
  /\ ppc = "fencedDone"
  /\ parseIn = <<"x", "json">>
  /\ ~plainOut.ok
  /\ ~parseOut.ok
  /\ Len(parseLog) = 2
  /\ parseErr = InvalidJsonError

----------------------------------------------------------------------------
(* C22: what fetchWithRetry returns *)

\* C22: an invocation of fetchWithRetry that returns returns the 2xx response
\* of its last fetch, and every answer that was not 2xx was followed by a
\* wait, not by a return; so the response whose body analyzeIndividualPage
\* reads is 2xx, and a page whose call was given up (no 2xx among its
\* answers) has no entry, although every answer carried a body that parses.
C22_ReturnsOnly2xx ==
  /\ fpc = "returned" =>
       /\ Success2xx(result)
       /\ result = attempts[Len(attempts)]
  /\ \A k \in 1..Len(attempts) :
       ~Success2xx(attempts[k]) => result # attempts[k] /\ Len(waits) >= k
  /\ opc = "awaitJson" => Success2xx(resp)
  /\ \A k \in 1..Len(pages) :
       answered[k] # NoResponse /\ ~Success2xx(answered[k]) =>
         \A j \in 1..Len(pageAnalyses) : pageAnalyses[j].pageNumber # k

\* fetchWithRetry has returned the 200 of its third fetch, after a 304 and a
\* 404 that carried a body too.
C22_Witness ==
  /\ fpc = "returned"
  /\ Len(attempts) = 3
  /\ attempts[1].status = 304
  /\ attempts[2].status = 404
  /\ result.status = 200
  /\ opc = "awaitPage"

----------------------------------------------------------------------------
(* C23: the waits of fetchWithRetry *)

\* The invocation is waiting.
Waiting == fpc \in {"wait5xx", "waitCatch"}

----------------------------------------------------------------------------
(* C24: the categories of the aggregate *)

\* The categories the model returned for segment k.
ReturnedCategories(k) == CategoriesOrEmpty(safeParseJson(answered[k].body.content).value)

\* The elements of a sequence.
Range(q) == {q[j] : j \in 1..Len(q)}

\* C24: in the aggregate a run returns, tnpscCategories has no element twice
\* and its elements are exactly the categories the model returned for the
\* segments that were processed successfully.
C24_CategoriesOfSuccesses ==
  opc = "returned" =>
    /\ \A j \in 1..Len(aggregate.tnpscCategories) : \A l \in 1..Len(aggregate.tnpscCategories) :
         j # l => aggregate.tnpscCategories[j] # aggregate.tnpscCategories[l]
    /\ Range(aggregate.tnpscCategories)
         = UNION {Range(ReturnedCategories(k)) : k \in SucceededSegments}

----------------------------------------------------------------------------
(* Vocabulary of the claims about analyzeMultipleImages *)

\* The files among the first n whose type begins with image/, in input order.
RECURSIVE ImageFilesUpTo(_)
ImageFilesUpTo(n) ==
  IF n = 0 THEN <<>>
  ELSE IF Len(files[n]) > 0 /\ files[n][1] = "image/"
         THEN Append(ImageFilesUpTo(n - 1), n)
         ELSE ImageFilesUpTo(n - 1)

\* The files the loop has dealt with or is dealing with.
FilesReached ==
  IF mpc = "awaitImage" \/ (mpc = "thrown" /\ mOutcome.kind = "analyzeImage")
    THEN fidx
    ELSE fidx - 1

ResultsOf(ks) == [j \in 1..Len(ks) |-> ImageResult(ks[j])]

ModelCalls == Len(imageCalls) + Len(questionCalls)

\* C25: analyzeMultipleImages is fail-fast and ordered. analyzeImage is called for
\* the image files only, in input order; generateQuestions is called at most once,
\* after every image file was analysed successfully, with the results in input
\* order; a failing analyzeImage fails the operation with no call of
\* generateQuestions; without an image file the operation fails with
\* 'No valid images found for analysis' and no model call at all.
C25_FailFastOrdered ==
  /\ imageCalls = ImageFilesUpTo(FilesReached)
  /\ mpc # "thrown" \/ mOutcome # ImageError(fidx)
       => analysisResults = ResultsOf(ImageFilesUpTo(fidx - 1))
  /\ Len(questionCalls) <= 1
  /\ questionCalls # <<>>
       => /\ fidx = Len(files) + 1
          /\ questionCalls[1] = ResultsOf(ImageFilesUpTo(Len(files)))
          /\ questionCalls[1] # <<>>
  /\ mpc = "returned" => mOutcome = QuizResult(ResultsOf(ImageFilesUpTo(Len(files))))
  /\ mpc = "thrown" /\ mOutcome.kind = "analyzeImage"
       => /\ questionCalls = <<>>
          /\ mOutcome.file = imageCalls[Len(imageCalls)]
  /\ mpc \in {"returned", "thrown"} /\ Len(analysisResults) < Len(imageCalls)
       => mpc = "thrown" /\ mOutcome = ImageError(imageCalls[Len(imageCalls)])
  /\ mpc \in {"returned", "thrown"} /\ ImageFilesUpTo(Len(files)) = <<>>
       => /\ mpc = "thrown"
          /\ mOutcome = NoValidImagesError
          /\ ModelCalls = 0

\* Two images around a file that is not one were analysed and the quiz was returned.
C25_Witness ==
  /\ mpc = "returned"
  /\ Len(files) = 3
  /\ imageCalls = <<1, 3>>
  /\ Len(questionCalls) = 1

----------------------------------------------------------------------------
(* Vocabulary of the claims about generateQuestions *)

\* The model's answer had a text that parsed.
QuizParsed == qanswer.kind = "response" /\ qanswer.ok /\ qanswer.content = "json"

WellFormedQuestion(q) ==
  /\ ~Falsy(q.type)
  /\ IsArray(q.options)
  /\ ~Falsy(q.answer)

\* The defaults took the place of what the question k of the answer lacked.
DefaultsApplied(k) ==
  LET raw == qanswer.value.items[k]
      q == qresult.questions[k]
  IN  /\ q.type = (IF Falsy(raw.type) THEN Str("mcq") ELSE raw.type)
      /\ q.answer = (IF Falsy(raw.answer) THEN Str("A") ELSE raw.answer)
      /\ IF IsArray(raw.options)
           THEN q.options = raw.options
           ELSE Len(q.options.items) = 4

\* What generateQuestions returns is consistent and every question is complete.
QuizWellFormed ==
  qpc = "returned"
    => /\ qresult.totalQuestions = Len(qresult.questions)
       /\ \A k \in 1..Len(qresult.questions) : WellFormedQuestion(qresult.questions[k])
       /\ IsArray(qanswer.value)
            => /\ Len(qresult.questions) = Len(qanswer.value.items)
               /\ \A k \in 1..Len(qresult.questions) : DefaultsApplied(k)

\* C26: whenever generateQuestions returns, totalQuestions is the length of
\* questions and every question has a type, an options array and an answer, the
\* defaults being mcq, four placeholder options and A; and when the parsed
\* answer of the model is not an array, it returns a quiz of zero questions with
\* totalQuestions 0 rather than an error.
C26_QuizShape ==
  /\ QuizWellFormed
  /\ qpc \in {"returned", "thrown"} /\ QuizParsed /\ ~IsArray(qanswer.value)
       => /\ qpc = "returned"
          /\ qresult.questions = <<>>
          /\ qresult.totalQuestions = 0

----------------------------------------------------------------------------
(* Vocabulary of the claims about the StudyHistory component *)

\* The search box holds more than white space.
SearchActive == \E k \in 1..Len(searchTerm) : searchTerm[k] \notin Whitespace

\* The term occurs in the text, letter case aside.
OccursIn(term, text) ==
  \E off \in 0..(Len(text) - Len(term)) :
    \A j \in 1..Len(term) : LowerOf(text[off + j]) = LowerOf(term[j])

\* The record satisfies every active filter.
SatisfiesFilters(r) ==
  /\ filterType = "all" \/ r.type = filterType
  /\ filterDifficulty = "all" \/ r.difficulty = filterDifficulty
  /\ filterLanguage = "all" \/ r.language = filterLanguage
  /\ SearchActive
       => \/ r.fileName.present /\ OccursIn(searchTerm, r.fileName.text)
          \/ OccursIn(searchTerm, TypeText(r.type))

WithoutId(list, id) == SelectSeq(list, LAMBDA r : r.id # id)

\* C28: a deletion whose remote call fails leaves studyHistory as it is; one whose
\* remote call succeeds removes exactly the records of its id and keeps every
\* other record and their order, also when other deletions completed between
\* its call and its end.
C28_DeleteOutcome ==
  [][deleteCount' = deleteCount + 1
       => studyHistory' = (IF lastDelete'.ok
                             THEN WithoutId(studyHistory, lastDelete'.id)
                             ELSE studyHistory)]_vars

\* A deletion succeeded on a list that another deletion had changed since its call.
C28_Witness ==
  /\ deleteCount = 2
  /\ lastDelete.ok
  /\ lastDelete.stale
  /\ deleting = <<>>

\* The Retake button of the record is disabled.
RetakeDisabled(id) == isRetakingQuiz = id

\* C29: while the regeneration of a quiz for a record is in progress,
\* isRetakingQuiz is the id of that record, so that its Retake button stays
\* disabled, whatever retakes of other records are started or end meanwhile;
\* and it is null again once no regeneration is in progress.
C29_DisabledWhileRunning ==
  /\ \A j \in 1..Len(retaking) : RetakeDisabled(retaking[j])
  /\ retaking = <<>> => isRetakingQuiz = NoRetake

====
